---------------------------- MODULE Spec2Model ----------------------------
(***************************************************************************)
(* The Artix-7 GTP SerDes backend (src/bucatini/backends/artix7.py):       *)
(* WaitTimer, DRPMux, GTPTXInit, GTPRXInit, the GTP datapath and           *)
(* GTPQuadPLL.compute_config; and the constructor of BucatiniPHY           *)
(* (src/bucatini/phy.py).  Every clocked component is modelled as one      *)
(* action per clock edge of its domain: the combinational signals of a     *)
(* tick are operators of the registers and inputs of that tick, the primed *)
(* variables are the values the registers take at the edge that ends the   *)
(* tick.                                                                   *)
(***************************************************************************)
EXTENDS Integers, Naturals, Sequences, FiniteSets, TLC

VARIABLES
    \* ---- WaitTimer, stand-alone --------------------------------------
    wt_t,          \* threshold t the timer was constructed with
    wt_count,      \* register `count`
    wt_wait,       \* input `wait` of the current tick
    wt_run,        \* ticks since `count` last held its reset value
    wt_prev,       \* what the previous tick saw: <<wait, count>> or <<>>
    \* ---- DRPMux and the requesters registered on it -------------------
    mux_sel,       \* input `sel` (4 bits)
    mux_req,       \* en/we/addr/di lines each registered interface drives
    \* ---- the transceiver's DRP port behind the mux --------------------
    drp_busy,      \* a transaction was accepted and is not yet answered
    drp_cnt,       \* edges left before the answer
    drp_rdreg,     \* the accepted transaction reads RegAddr
    drp_owner,     \* index of the interface that issued it
    drp_rdy,       \* DRPRDY of the current tick
    drp_do,        \* DRPDO of the current tick
    drp_reg,       \* content of the device register at RegAddr
    \* ---- GTPTXInit ----------------------------------------------------
    tx_settle_t,   \* threshold of init_delay, int(500e-9 * ss_clock_frequency)
    tx_wd_t,       \* threshold of watchdog, int(1e-3 * ss_clock_frequency)
    tx_state,      \* FSM state
    tx_init_count, \* init_delay's count
    tx_wd_count,   \* watchdog's count
    tx_plllock_ff, \* the two stages of FFSynchronizer(self.plllock, plllock)
    tx_rstdone_ff, \* the two stages of FFSynchronizer(self.txresetdone, ..)
    tx_out,        \* the registered outputs driving the transceiver
    tx_restart,    \* input `restart` of the current tick
    tx_plllock,    \* input `plllock` of the current tick
    tx_txresetdone,\* input `txresetdone` of the current tick
    tx_obs,        \* observer: `armed`, the consecutive ticks before this one
                   \* with done false and restart low; `since_drp`, the ticks
                   \* since the FSM left DRP (-1 in POWER-DOWN and DRP);
                   \* `locked`, the latched PLL lock was asserted in a tick
                   \* since the FSM last was in POWER-DOWN
    \* ---- GTPRXInit ----------------------------------------------------
    rx_settle_t,   \* threshold of init_delay, int(500e-9 * ss_clock_frequency)
    rx_wd_t,       \* threshold of watchdog, int(4e-3 * ss_clock_frequency)
    rx_state,      \* FSM state
    rx_init_count, \* init_delay's count
    rx_wd_count,   \* watchdog's count
    rx_drpvalue,   \* register `drpvalue`
    rx_pma_ff,     \* the two stages of FFSynchronizer(self.rxpmaresetdone, ..)
    rx_pma_r,      \* register `rxpmaresetdone_r`
    rx_rstdone_ff, \* the two stages of FFSynchronizer(self.rxresetdone, ..)
    rx_out,        \* the registered outputs driving the transceiver
    rx_restart,    \* input `restart` of the current tick
    rx_rxpmaresetdone, \* input `rxpmaresetdone` (asynchronous)
    rx_rxresetdone,    \* input `rxresetdone` of the current tick
    rx_plllock,    \* input `plllock` of the current tick
    rx_plllock_ff, \* the two stages of FFSynchronizer(self.plllock, plllock)
    rx_orig,       \* what the register at RegAddr held before bring-up
    rx_hit,        \* reset_self was asserted while a transaction was pending
    rx_obs,        \* observer: `read`, the DO the bus returned with ready in
                   \* DRP_READ_WAIT of the current attempt (-1 before it);
                   \* `locked`, the latched PLL lock was asserted in a tick
                   \* since the FSM last was in POWER-DOWN
    \* ---- an idealized transceiver and PLL -----------------------------
    ideal,         \* its fixed delays, its countdowns and the tick number
    \* ---- which controller a stand-alone bring-up run instantiates -----
    dut,
    \* ---- GTP datapath ------------------------------------------------
    gtp_tx_gpio_en,    \* input `self.tx_gpio_en` of the current tx tick
    gtp_tx_gpio,       \* input `self.tx_gpio` of the current tx tick
    gtp_gpio_en_ff,    \* the two stages of FFSynchronizer(self.tx_gpio_en, ..)
    gtp_gpio_ff,       \* the two stages of FFSynchronizer(self.tx_gpio, ..)
    gtp_gpio_hist,     \* <<tx_gpio_en, tx_gpio>> of the previous tx ticks,
                       \* latest first, two at most
    gtp_sink,          \* `self.sink` of the current tx tick: data, ctrl
    gtp_rx,            \* what the transceiver's receiver presents in the
                       \* current rx tick: data, ctrl, disp_error, code_error
    \* ---- a DRPMux under construction ---------------------------------
    drpmux_interfaces, \* len(self.interfaces)
    drpmux_pc,         \* "new", "elaborated" or "AssertionError"
    \* ---- GTPQuadPLL --------------------------------------------------
    pll_refclk_freq,   \* argument `refclk_freq`, in kHz
    pll_linerate,      \* argument `linerate`, in kbit/s
    pll_pc,            \* "new", "constructed" or "raised"
    pll_config,        \* `self.config`, <<>> while unset
    pll_error,         \* the exception __init__ left with, <<>> if none
    \* ---- a subclass of BucatiniPHY (src/bucatini/phy.py) ------------
    phy_interface_width, \* the subclass's INTERFACE_WIDTH
    phy_pc,              \* "new", "constructed" or "raised"
    phy_attributes,      \* number of interface attributes __init__ has set
    phy_data_bus_width,  \* value of the constant `data_bus_width`, -1 if unset
    phy_error            \* the exception __init__ left with, <<>> if none

timerVars == <<wt_t, wt_count, wt_wait, wt_run, wt_prev>>
muxVars   == <<mux_sel, mux_req>>
drpVars   == <<drp_busy, drp_cnt, drp_rdreg, drp_owner, drp_rdy, drp_do, drp_reg>>

txVars    == <<tx_settle_t, tx_wd_t, tx_state, tx_init_count, tx_wd_count,
               tx_plllock_ff, tx_rstdone_ff, tx_out,
               tx_restart, tx_plllock, tx_txresetdone, tx_obs>>

rxVars    == <<rx_settle_t, rx_wd_t, rx_state, rx_init_count, rx_wd_count,
               rx_drpvalue, rx_pma_ff, rx_pma_r, rx_rstdone_ff, rx_out,
               rx_restart, rx_rxpmaresetdone, rx_rxresetdone, rx_orig, rx_hit,
               rx_obs, rx_plllock, rx_plllock_ff>>

dataVars  == <<gtp_tx_gpio_en, gtp_tx_gpio, gtp_gpio_en_ff, gtp_gpio_ff,
               gtp_gpio_hist, gtp_sink, gtp_rx>>
pllVars   == <<pll_refclk_freq, pll_linerate, pll_pc, pll_config, pll_error>>
buildVars == <<drpmux_interfaces, drpmux_pc>>
phyVars   == <<phy_interface_width, phy_pc, phy_attributes,
               phy_data_bus_width, phy_error>>
otherVars == <<dut, dataVars, pllVars, buildVars, phyVars>>

vars == <<timerVars, muxVars, drpVars, txVars, rxVars, ideal, otherVars>>

\* what an action of one component leaves alone
notTimer == <<muxVars, drpVars, txVars, rxVars, ideal, otherVars>>
notMux   == <<timerVars, txVars, rxVars, ideal, otherVars>>
notTx    == <<timerVars, muxVars, drpVars, rxVars, ideal, otherVars>>
notRx    == <<timerVars, txVars, ideal, otherVars>>
notData  == <<timerVars, muxVars, drpVars, txVars, rxVars, ideal, dut, pllVars,
              buildVars, phyVars>>
notPll   == <<timerVars, muxVars, drpVars, txVars, rxVars, ideal, dut, dataVars,
              buildVars, phyVars>>
notBuild == <<timerVars, drpVars, txVars, rxVars, ideal, dut, dataVars, pllVars,
              phyVars>>
notPhy   == <<timerVars, muxVars, drpVars, txVars, rxVars, ideal, dut, dataVars,
              pllVars, buildVars>>

-----------------------------------------------------------------------------
(* Bounds *)

\* largest WaitTimer threshold explored by the stand-alone timer
MaxT == 9

\* most add_interface calls made on one DRPMux
MaxAddCalls == 18

\* longest answer time of the DRP port, in edges of its clock
MaxDrpDelay == 2

\* largest settle-delay threshold (500 ns worth of ss ticks) explored
MaxSettleT == 4

\* largest Tx watchdog threshold (1 ms worth of ss ticks) explored
MaxTxWatchdogT == 6

\* largest Rx watchdog threshold (4 ms worth of ss ticks) explored
MaxRxWatchdogT == 5

\* longest fixed delay of the idealized transceiver, in ss ticks
MaxIdealDelay == 2

\* largest INTERFACE_WIDTH a subclass of BucatiniPHY is given
MaxInterfaceWidth == 64

-----------------------------------------------------------------------------
(* nMigen value helpers *)

RECURSIVE Pow2(_)
Pow2(n) == IF n = 0 THEN 1 ELSE 2 * Pow2(n - 1)

\* bits_for(n): width of the unsigned value n, as Signal(range(n + 1)) has it
RECURSIVE BitsFor(_)
BitsFor(n) == IF n < 2 THEN 1 ELSE 1 + BitsFor(n \div 2)

Min(a, b) == IF a < b THEN a ELSE b

-----------------------------------------------------------------------------
(* WaitTimer *)

\* width of `count`: Signal(range(t + 1), reset=t)
WaitTimerWidth(t) == BitsFor(t)

\* done.eq(count == 0)
WaitTimerDone(count) == count = 0

\* a WaitTimer whose else-branch forgets to reload the counter
WaitTimerNextNoReload(t, count, wait) ==
    IF wait
    THEN IF ~WaitTimerDone(count)
         THEN (count + 1) % Pow2(WaitTimerWidth(t))
         ELSE count
    ELSE count

\* the value `count` takes at the next edge of the timer's domain:
\*   If(wait): If(~done): count.eq(count + 1)   (truncated to the width)
\*   Else:     count.eq(count.reset)
WaitTimerNext(t, count, wait) ==
    IF wait
    THEN IF ~WaitTimerDone(count)
         THEN (count + 1) % Pow2(WaitTimerWidth(t))
         ELSE count
    ELSE t

\* number of edges a timer of threshold t needs, wait held, to report done
WaitTimerTicks(t) == Pow2(WaitTimerWidth(t)) - t

TimerIdle ==
    /\ wt_t = 1
    /\ wt_count = 1
    /\ wt_wait = FALSE
    /\ wt_run = 0
    /\ wt_prev = <<>>

-----------------------------------------------------------------------------
(* DRPInterface and DRPMux *)

\* the interfaces GTP.elaborate registers with add_interface:
\* index 0 is rx_init.drp, index 1 is the GTP's own drp port
NumInterfaces == 2

Ifaces == 0..(NumInterfaces - 1)

\* values of the 4-bit selector, Signal(4)
SelValues == 0..15

\* the register GTPRXInit reads and rewrites, drp.addr.eq(0x011)
RegAddr == 17

\* the addresses and data words the model drives on the 9-bit / 16-bit bus
DrpAddrs == {RegAddr, 0}
DrpData  == {2049, 63487}

\* the controller-to-peripheral fields of a DRPInterface (en, we, addr, di)
DrpLines == [en : BOOLEAN, we : BOOLEAN, addr : DrpAddrs, di : DrpData]

\* combinational default of an undriven interface: every field 0
DrpLinesZero == [en |-> FALSE, we |-> FALSE, addr |-> 0, di |-> 0]
DrpBackZero  == [rdy |-> FALSE, do |-> 0]

\* a mux without the Switch: the bus carries the lines of interface 0 only
MuxToBusFirst(sel, reqs) ==
    IF sel \in Ifaces THEN reqs[0] ELSE DrpLinesZero

\* the en/we/addr/di the mux puts on the physical bus:
\*   Switch(sel): Case(i): interface.connect(self)
\* (no Case matches a selector beyond the registered interfaces)
MuxToBus(sel, reqs) ==
    IF sel \in Ifaces THEN reqs[sel] ELSE DrpLinesZero

\* a mux that reflects the answer to every registered interface
MuxToIfaceBroadcast(sel, j, rdy, do) == [rdy |-> rdy, do |-> do]

\* the rdy/do interface j sees: the selected interface gets the physical
\* bus's, every other one is left at its combinational default
MuxToIface(sel, j, rdy, do) ==
    IF j = sel THEN [rdy |-> rdy, do |-> do] ELSE DrpBackZero

-----------------------------------------------------------------------------
(* The DRP port of the transceiver (GTPE2_CHANNEL), seen from the bus:     *)
(* one outstanding transaction, answered by a one-tick DRPRDY pulse        *)

\* one edge of the DRP clock with `bus` on the port's inputs; an accepted
\* transaction is answered after a number of edges taken from `delays`
DrpPortEdge(bus, owner, delays) ==
    IF drp_busy
    THEN IF drp_cnt = 0
         THEN /\ drp_busy' = FALSE
              /\ drp_rdy' = TRUE
              /\ drp_do' = IF drp_rdreg THEN drp_reg ELSE 0
              /\ UNCHANGED <<drp_cnt, drp_rdreg, drp_owner, drp_reg>>
         ELSE /\ drp_cnt' = drp_cnt - 1
              /\ drp_rdy' = FALSE
              /\ drp_do' = 0
              /\ UNCHANGED <<drp_busy, drp_rdreg, drp_owner, drp_reg>>
    ELSE IF bus.en
         THEN /\ drp_busy' = TRUE
              /\ \E d \in delays : drp_cnt' = d - 1
              /\ drp_rdreg' = (~bus.we /\ bus.addr = RegAddr)
              /\ drp_owner' = owner
              /\ drp_reg' = IF bus.we /\ bus.addr = RegAddr
                            THEN bus.di ELSE drp_reg
              /\ drp_rdy' = FALSE
              /\ drp_do' = 0
         ELSE /\ drp_rdy' = FALSE
              /\ drp_do' = 0
              /\ UNCHANGED <<drp_busy, drp_cnt, drp_rdreg, drp_owner, drp_reg>>

DrpIdle ==
    /\ drp_busy = FALSE
    /\ drp_cnt = 0
    /\ drp_rdreg = FALSE
    /\ drp_owner = 0
    /\ drp_rdy = FALSE
    /\ drp_do = 0

MuxIdle ==
    /\ mux_sel = 0
    /\ mux_req = [j \in Ifaces |-> DrpLinesZero]

\* the limit of `assert len(self.interfaces) <= 16`
MaxInterfaces == 16

\* an assertion that rejects the sixteenth interface already
DrpMuxAssertionStrict(n) == n < MaxInterfaces

\* assert len(self.interfaces) <= 16
DrpMuxAssertion(n) == n <= MaxInterfaces

\* the interface a mux elaborated with n interfaces connects for a
\* selector value: Case(i) for i < n, no Case otherwise
DrpMuxCase(n, sel) == IF sel < n THEN sel ELSE -1

\* DRPMux(): self.interfaces = []
BuildIdle == drpmux_interfaces = 0 /\ drpmux_pc = "new"

\* add_interface(interface) on a mux not yet elaborated
DrpMuxAddInterface ==
    /\ drpmux_pc = "new"
    /\ drpmux_interfaces < MaxAddCalls
    /\ drpmux_interfaces' = drpmux_interfaces + 1
    /\ UNCHANGED <<drpmux_pc, muxVars, notBuild>>

\* elaborate(platform)
DrpMuxElaborate ==
    /\ drpmux_pc = "new"
    /\ drpmux_pc' = IF DrpMuxAssertion(drpmux_interfaces)
                    THEN "elaborated" ELSE "AssertionError"
    /\ UNCHANGED <<drpmux_interfaces, muxVars, notBuild>>

\* the selector of the elaborated mux takes a new value
DrpMuxSelect ==
    /\ drpmux_pc = "elaborated"
    /\ \E s \in SelValues : mux_sel' = s
    /\ UNCHANGED <<mux_req, buildVars, notBuild>>

\* the selector input takes a new value
MuxSelect ==
    /\ \E s \in SelValues : mux_sel' = s
    /\ UNCHANGED <<mux_req, drpVars, notMux>>

\* a registered interface drives new values on its lines
MuxDrive ==
    /\ \E j \in Ifaces, l \in DrpLines : mux_req' = [mux_req EXCEPT ![j] = l]
    /\ UNCHANGED <<mux_sel, drpVars, notMux>>

\* an edge of the DRP clock: the port samples what the mux puts on the bus
MuxTick ==
    /\ DrpPortEdge(MuxToBus(mux_sel, mux_req), mux_sel, 1..MaxDrpDelay)
    /\ UNCHANGED <<muxVars, notMux>>

-----------------------------------------------------------------------------
(* nMigen library elements used by the controllers *)

\* a synchronizer of one stage
FFSynchronizerNextOneStage(ff, i) == <<i, i>>

\* FFSynchronizer (stages = 2, reset = 0, reset_less = True): at every edge
\* of its output domain stage 0 takes the input and stage 1 takes stage 0
FFSynchronizerNext(ff, i) == <<i, ff[1]>>

\* the output of the synchronizer is its last stage
FFSynchronizerOut(ff) == ff[2]

\* value of both stages before the first edge
FFSynchronizerReset == <<FALSE, FALSE>>

\* the domain every register of the controllers is clocked by:
\* m.FSM(domain="ss"), m.d.ss, FFSynchronizer(.., o_domain="ss")
SsDomain == "ss"

\* a ResetInserter that was given {"ss": reset_self}
ResetInserterOnSs == "ss"

\* the domain whose registers ResetInserter(reset_self) resets in GTPTXInit:
\* the control is a bare signal, not a {domain: signal} mapping, and nMigen
\* applies a bare control to the domain named "sync"
TxResetInserterDomain == "sync"

-----------------------------------------------------------------------------
(* GTPTXInit *)

TxStates == {"POWER-DOWN", "DRP", "WAIT-PLL-RESET", "WAIT-INIT-DELAY",
             "WAIT-GTP-RESET", "READY"}

\* drp_done = Signal(reset=1); nothing in the design drives it
tx_drp_done == TRUE

\* a controller that asserts txuserrdy from WAIT-INIT-DELAY on
TxCombUserReadyEarly(state) ==
    [gttxreset |-> state \in {"POWER-DOWN", "DRP", "WAIT-PLL-RESET",
                              "WAIT-INIT-DELAY"},
     gttxpd    |-> state = "POWER-DOWN",
     pllreset  |-> state \in {"POWER-DOWN", "DRP"},
     drp_start |-> state = "DRP",
     txuserrdy |-> state \in {"WAIT-INIT-DELAY", "WAIT-GTP-RESET", "READY"},
     txdlyen   |-> state = "READY",
     done      |-> state = "READY"]

\* the combinational outputs of the FSM in each state (default 0)
TxComb(state) ==
    [gttxreset |-> state \in {"POWER-DOWN", "DRP", "WAIT-PLL-RESET",
                              "WAIT-INIT-DELAY"},
     gttxpd    |-> state = "POWER-DOWN",
     pllreset  |-> state \in {"POWER-DOWN", "DRP"},
     drp_start |-> state = "DRP",
     txuserrdy |-> state \in {"WAIT-GTP-RESET", "READY"},
     txdlyen   |-> state = "READY",
     done      |-> state = "READY"]

\* done.eq(1) is driven in READY only
TxDone == TxComb(tx_state).done

\* the deglitch registers: m.d.ss += self.gttxreset.eq(gttxreset), ...
TxOutNext(state) ==
    [gttxreset |-> TxComb(state).gttxreset,
     gttxpd    |-> TxComb(state).gttxpd,
     txuserrdy |-> TxComb(state).txuserrdy,
     txdlyen   |-> TxComb(state).txdlyen]

\* reset value of the deglitch registers
TxOutReset ==
    [gttxreset |-> FALSE, gttxpd |-> FALSE, txuserrdy |-> FALSE,
     txdlyen |-> FALSE]

\* a controller that does not wait for the PLL to lock
TxFsmNextIgnoresLock(state, drpdone, plllock, initdone, txresetdone, restart) ==
    CASE state = "POWER-DOWN"      -> "DRP"
      [] state = "DRP"             -> IF drpdone THEN "WAIT-PLL-RESET" ELSE state
      [] state = "WAIT-PLL-RESET"  -> "WAIT-INIT-DELAY"
      [] state = "WAIT-INIT-DELAY" -> IF initdone THEN "WAIT-GTP-RESET" ELSE state
      [] state = "WAIT-GTP-RESET"  -> IF txresetdone THEN "READY" ELSE state
      [] state = "READY"           -> IF restart THEN "POWER-DOWN" ELSE state

\* a controller that goes straight to WAIT-GTP-RESET when the settle timer
\* is already done at PLL lock
TxFsmNextSkipsDelay(state, drpdone, plllock, initdone, txresetdone, restart) ==
    CASE state = "POWER-DOWN"      -> "DRP"
      [] state = "DRP"             -> IF drpdone THEN "WAIT-PLL-RESET" ELSE state
      [] state = "WAIT-PLL-RESET"  ->
            IF plllock
            THEN (IF initdone THEN "WAIT-GTP-RESET" ELSE "WAIT-INIT-DELAY")
            ELSE state
      [] state = "WAIT-INIT-DELAY" -> IF initdone THEN "WAIT-GTP-RESET" ELSE state
      [] state = "WAIT-GTP-RESET"  -> IF txresetdone THEN "READY" ELSE state
      [] state = "READY"           -> IF restart THEN "POWER-DOWN" ELSE state

\* a controller that gives up READY when the PLL loses lock
TxFsmNextDropsOnUnlock(state, drpdone, plllock, initdone, txresetdone, restart) ==
    CASE state = "POWER-DOWN"      -> "DRP"
      [] state = "DRP"             -> IF drpdone THEN "WAIT-PLL-RESET" ELSE state
      [] state = "WAIT-PLL-RESET"  -> IF plllock THEN "WAIT-INIT-DELAY" ELSE state
      [] state = "WAIT-INIT-DELAY" -> IF initdone THEN "WAIT-GTP-RESET" ELSE state
      [] state = "WAIT-GTP-RESET"  -> IF txresetdone THEN "READY" ELSE state
      [] state = "READY"           ->
            IF restart \/ ~plllock THEN "POWER-DOWN" ELSE state

\* m.next of the FSM
TxFsmNext(state, drpdone, plllock, initdone, txresetdone, restart) ==
    CASE state = "POWER-DOWN"      -> "DRP"
      [] state = "DRP"             -> IF drpdone THEN "WAIT-PLL-RESET" ELSE state
      [] state = "WAIT-PLL-RESET"  -> IF plllock THEN "WAIT-INIT-DELAY" ELSE state
      [] state = "WAIT-INIT-DELAY" -> IF initdone THEN "WAIT-GTP-RESET" ELSE state
      [] state = "WAIT-GTP-RESET"  -> IF txresetdone THEN "READY" ELSE state
      [] state = "READY"           -> IF restart THEN "POWER-DOWN" ELSE state

\* reset_self = self.restart | watchdog.done
TxResetSelf == tx_restart \/ WaitTimerDone(tx_wd_count)

\* a watchdog that keeps counting through a restart request
TxWatchdogWaitIgnoresRestart == ~WaitTimerDone(tx_wd_count) /\ ~TxDone

\* watchdog.wait.eq(~reset_self & ~self.done)
TxWatchdogWait == ~TxResetSelf /\ ~TxDone

\* ResetInserter(reset_self)(m): the registers of the controlled domain take
\* their reset value at an edge where reset_self is asserted
TxResetActs == TxResetSelf /\ TxResetInserterDomain = SsDomain

\* the observer before the first edge
TxObsReset == [armed |-> 0, since_drp |-> -1, locked |-> FALSE]

\* the observer after an edge that takes the FSM from `state` to `next`,
\* done and restart being those of the tick the edge ends; it stops
\* counting at the thresholds of the two timers; `lock` is the latched
\* PLL lock of that tick
TxObsNext(obs, state, next, done, restart, lock) ==
    [armed     |-> IF ~done /\ ~restart
                   THEN Min(obs.armed + 1, tx_wd_t) ELSE 0,
     since_drp |-> IF next \in {"POWER-DOWN", "DRP"} THEN -1
                   ELSE IF state = "DRP" THEN 0
                   ELSE Min(obs.since_drp + 1, tx_settle_t),
     locked    |-> IF "POWER-DOWN" \in {state, next} THEN FALSE
                   ELSE obs.locked \/ lock]

TxIdle ==
    /\ tx_settle_t = 1
    /\ tx_wd_t = 2
    /\ tx_state = "POWER-DOWN"
    /\ tx_init_count = 1
    /\ tx_wd_count = 2
    /\ tx_plllock_ff = FFSynchronizerReset
    /\ tx_rstdone_ff = FFSynchronizerReset
    /\ tx_out = TxOutReset
    /\ tx_restart = FALSE
    /\ tx_plllock = FALSE
    /\ tx_txresetdone = FALSE
    /\ tx_obs = TxObsReset

\* the controller after construction, inputs drawn from R (restart), L
\* (plllock) and D (txresetdone)
TxInit(R, L, D) ==
    /\ tx_settle_t \in 1..MaxSettleT
    /\ tx_wd_t \in (MaxSettleT + 1)..MaxTxWatchdogT
    /\ tx_state = "POWER-DOWN"
    /\ tx_init_count = tx_settle_t
    /\ tx_wd_count = tx_wd_t
    /\ tx_plllock_ff = FFSynchronizerReset
    /\ tx_rstdone_ff = FFSynchronizerReset
    /\ tx_out = TxOutReset
    /\ tx_restart \in R
    /\ tx_plllock \in L
    /\ tx_txresetdone \in D
    /\ tx_obs = TxObsReset

\* one edge of the ss clock in GTPTXInit; the inputs of the next tick are
\* drawn from R (restart), L (plllock) and D (txresetdone)
TxEdge(R, L, D) ==
    /\ tx_state' =
          IF TxResetActs THEN "POWER-DOWN"
          ELSE TxFsmNext(tx_state, tx_drp_done,
                         FFSynchronizerOut(tx_plllock_ff),
                         WaitTimerDone(tx_init_count),
                         FFSynchronizerOut(tx_rstdone_ff), tx_restart)
    /\ tx_init_count' =
          IF TxResetActs THEN tx_settle_t
          ELSE WaitTimerNext(tx_settle_t, tx_init_count, TRUE)
    /\ tx_wd_count' =
          IF TxResetActs THEN tx_wd_t
          ELSE WaitTimerNext(tx_wd_t, tx_wd_count, TxWatchdogWait)
    /\ tx_out' = IF TxResetActs THEN TxOutReset ELSE TxOutNext(tx_state)
    /\ tx_plllock_ff' = FFSynchronizerNext(tx_plllock_ff, tx_plllock)
    /\ tx_rstdone_ff' = FFSynchronizerNext(tx_rstdone_ff, tx_txresetdone)
    /\ tx_restart' \in R
    /\ tx_plllock' \in L
    /\ tx_txresetdone' \in D
    /\ tx_obs' = TxObsNext(tx_obs, tx_state, tx_state', TxDone, tx_restart,
                            FFSynchronizerOut(tx_plllock_ff))
    /\ UNCHANGED <<tx_settle_t, tx_wd_t>>

\* an ss edge with every input free
TxTick == TxEdge(BOOLEAN, BOOLEAN, BOOLEAN) /\ UNCHANGED notTx

\* an ss edge of a run in which the PLL never locks and nobody restarts
TxTickNoLock == TxEdge({FALSE}, {FALSE}, BOOLEAN) /\ UNCHANGED notTx

-----------------------------------------------------------------------------
(* GTPRXInit *)

RxStates == {"POWER-DOWN", "DRP_READ_ISSUE", "DRP_READ_ISSUE_POST",
             "DRP_READ_WAIT", "DRP_MOD_ISSUE", "DRP_MOD_WAIT",
             "WAIT_PMARST_FALL", "DRP_RESTORE_ISSUE", "DRP_RESTORE_WAIT",
             "WAIT-GTP-RESET", "READY"}

\* the states that wait for the answer of a register transaction
RxWaitStates == {"DRP_READ_WAIT", "DRP_MOD_WAIT", "DRP_RESTORE_WAIT"}

\* the domain whose registers ResetInserter(reset_self) resets in GTPRXInit
\* (a bare control signal: nMigen's "sync", as in GTPTXInit)
RxResetInserterDomain == "sync"

\* bitwise AND of two unsigned values
RECURSIVE BitAnd(_, _)
BitAnd(a, b) ==
    IF a = 0 \/ b = 0 THEN 0
    ELSE (a % 2) * (b % 2) + 2 * BitAnd(a \div 2, b \div 2)

\* the mask of the read-modify-write: drpvalue & 0xf7ff
DrpMask == 63487

\* a controller that holds drp.en until the transaction is answered
RxCombEnableHeld(state) ==
    [gtrxreset |-> state \in {"POWER-DOWN", "DRP_READ_ISSUE",
                              "DRP_READ_ISSUE_POST", "DRP_READ_WAIT",
                              "DRP_MOD_ISSUE", "DRP_MOD_WAIT"},
     gtrxpd    |-> state = "POWER-DOWN",
     rxuserrdy |-> state \in {"WAIT_PMARST_FALL", "DRP_RESTORE_ISSUE",
                              "DRP_RESTORE_WAIT", "WAIT-GTP-RESET", "READY"},
     drpmask   |-> state \in {"DRP_MOD_ISSUE", "DRP_MOD_WAIT"},
     en        |-> state \in {"DRP_READ_ISSUE_POST", "DRP_READ_WAIT",
                              "DRP_MOD_ISSUE", "DRP_MOD_WAIT",
                              "DRP_RESTORE_ISSUE", "DRP_RESTORE_WAIT"},
     we        |-> state \in {"DRP_MOD_ISSUE", "DRP_MOD_WAIT",
                              "DRP_RESTORE_ISSUE", "DRP_RESTORE_WAIT"},
     done      |-> state = "READY"]

\* the combinational outputs of the FSM in each state (default 0)
RxComb(state) ==
    [gtrxreset |-> state \in {"POWER-DOWN", "DRP_READ_ISSUE",
                              "DRP_READ_ISSUE_POST", "DRP_READ_WAIT",
                              "DRP_MOD_ISSUE", "DRP_MOD_WAIT"},
     gtrxpd    |-> state = "POWER-DOWN",
     rxuserrdy |-> state \in {"WAIT_PMARST_FALL", "DRP_RESTORE_ISSUE",
                              "DRP_RESTORE_WAIT", "WAIT-GTP-RESET", "READY"},
     drpmask   |-> state = "DRP_MOD_ISSUE",
     en        |-> state \in {"DRP_READ_ISSUE_POST", "DRP_MOD_ISSUE",
                              "DRP_RESTORE_ISSUE"},
     we        |-> state \in {"DRP_MOD_ISSUE", "DRP_RESTORE_ISSUE"},
     done      |-> state = "READY"]

RxDone == RxComb(rx_state).done

\* a controller whose mask clears bit 0 as well: drpvalue & 0xf7fe
RxDrpLinesMaskTwoBits(state, drpvalue) ==
    [en   |-> RxComb(state).en,
     we   |-> RxComb(state).we,
     addr |-> RegAddr,
     di   |-> IF RxComb(state).drpmask
              THEN BitAnd(drpvalue, DrpMask - 1) ELSE drpvalue]

\* a controller that applies the mask to every write, the restore included
RxDrpLinesMaskAlways(state, drpvalue) ==
    [en   |-> RxComb(state).en,
     we   |-> RxComb(state).we,
     addr |-> RegAddr,
     di   |-> BitAnd(drpvalue, DrpMask)]

\* what the controller drives on self.drp:
\*   drp.addr.eq(0x011); If(drpmask): drp.di.eq(drpvalue & 0xf7ff)
\*                       Else:        drp.di.eq(drpvalue)
RxDrpLines(state, drpvalue) ==
    [en   |-> RxComb(state).en,
     we   |-> RxComb(state).we,
     addr |-> RegAddr,
     di   |-> IF RxComb(state).drpmask
              THEN BitAnd(drpvalue, DrpMask) ELSE drpvalue]

\* the deglitch registers: m.d.ss += self.gtrxreset.eq(gtrxreset), ...
RxOutNext(state) ==
    [gtrxreset |-> RxComb(state).gtrxreset,
     gtrxpd    |-> RxComb(state).gtrxpd,
     rxuserrdy |-> RxComb(state).rxuserrdy]

RxOutReset == [gtrxreset |-> FALSE, gtrxpd |-> FALSE, rxuserrdy |-> FALSE]

\* a controller that does not restore the register when RXPMARESETDONE has
\* already fallen at the end of the modify write
RxFsmNextSkipsRestore(state, initdone, rdy, pmafall, rxresetdone, restart) ==
    CASE state = "POWER-DOWN"          -> "DRP_READ_ISSUE"
      [] state = "DRP_READ_ISSUE"      ->
            IF initdone THEN "DRP_READ_ISSUE_POST" ELSE state
      [] state = "DRP_READ_ISSUE_POST" -> "DRP_READ_WAIT"
      [] state = "DRP_READ_WAIT"       -> IF rdy THEN "DRP_MOD_ISSUE" ELSE state
      [] state = "DRP_MOD_ISSUE"       -> "DRP_MOD_WAIT"
      [] state = "DRP_MOD_WAIT"        ->
            IF rdy
            THEN (IF pmafall THEN "DRP_RESTORE_ISSUE" ELSE "WAIT_PMARST_FALL")
            ELSE state
      [] state = "WAIT_PMARST_FALL"    ->
            IF pmafall THEN "DRP_RESTORE_ISSUE" ELSE state
      [] state = "DRP_RESTORE_ISSUE"   -> "DRP_RESTORE_WAIT"
      [] state = "DRP_RESTORE_WAIT"    ->
            IF rdy THEN "WAIT-GTP-RESET" ELSE state
      [] state = "WAIT-GTP-RESET"      -> IF rxresetdone THEN "READY" ELSE state
      [] state = "READY"               -> IF restart THEN "POWER-DOWN" ELSE state

\* an FSM whose DRP_READ_WAIT does not wait for drp.rdy
RxFsmNextNoWait(state, initdone, rdy, pmafall, rxresetdone, restart) ==
    CASE state = "POWER-DOWN"          -> "DRP_READ_ISSUE"
      [] state = "DRP_READ_ISSUE"      ->
            IF initdone THEN "DRP_READ_ISSUE_POST" ELSE state
      [] state = "DRP_READ_ISSUE_POST" -> "DRP_READ_WAIT"
      [] state = "DRP_READ_WAIT"       -> "DRP_MOD_ISSUE"
      [] state = "DRP_MOD_ISSUE"       -> "DRP_MOD_WAIT"
      [] state = "DRP_MOD_WAIT"        ->
            IF rdy THEN "WAIT_PMARST_FALL" ELSE state
      [] state = "WAIT_PMARST_FALL"    ->
            IF pmafall THEN "DRP_RESTORE_ISSUE" ELSE state
      [] state = "DRP_RESTORE_ISSUE"   -> "DRP_RESTORE_WAIT"
      [] state = "DRP_RESTORE_WAIT"    ->
            IF rdy THEN "WAIT-GTP-RESET" ELSE state
      [] state = "WAIT-GTP-RESET"      -> IF rxresetdone THEN "READY" ELSE state
      [] state = "READY"               -> IF restart THEN "POWER-DOWN" ELSE state

\* m.next of the FSM
RxFsmNext(state, initdone, rdy, pmafall, rxresetdone, restart) ==
    CASE state = "POWER-DOWN"          -> "DRP_READ_ISSUE"
      [] state = "DRP_READ_ISSUE"      ->
            IF initdone THEN "DRP_READ_ISSUE_POST" ELSE state
      [] state = "DRP_READ_ISSUE_POST" -> "DRP_READ_WAIT"
      [] state = "DRP_READ_WAIT"       -> IF rdy THEN "DRP_MOD_ISSUE" ELSE state
      [] state = "DRP_MOD_ISSUE"       -> "DRP_MOD_WAIT"
      [] state = "DRP_MOD_WAIT"        ->
            IF rdy THEN "WAIT_PMARST_FALL" ELSE state
      [] state = "WAIT_PMARST_FALL"    ->
            IF pmafall THEN "DRP_RESTORE_ISSUE" ELSE state
      [] state = "DRP_RESTORE_ISSUE"   -> "DRP_RESTORE_WAIT"
      [] state = "DRP_RESTORE_WAIT"    ->
            IF rdy THEN "WAIT-GTP-RESET" ELSE state
      [] state = "WAIT-GTP-RESET"      -> IF rxresetdone THEN "READY" ELSE state
      [] state = "READY"               -> IF restart THEN "POWER-DOWN" ELSE state

\* a controller that captures DO at every ready, whatever the state
RxDrpValueNextAnyReady(state, drpvalue, rdy, do) == IF rdy THEN do ELSE drpvalue

\* In DRP_READ_WAIT: If(drp.rdy): m.d.ss += drpvalue.eq(drp.do)
RxDrpValueNext(state, drpvalue, rdy, do) ==
    IF state = "DRP_READ_WAIT" /\ rdy THEN do ELSE drpvalue

\* reset_self = watchdog.done | self.restart
RxResetSelf == WaitTimerDone(rx_wd_count) \/ rx_restart

\* watchdog.wait.eq(~reset_self & ~self.done)
RxWatchdogWait == ~RxResetSelf /\ ~RxDone

\* ResetInserter(reset_self)(m)
RxResetActs == RxResetSelf /\ RxResetInserterDomain = SsDomain

\* what self.drp sees of the bus: rx_init.drp is interface 0 of the mux
RxDrpBack == MuxToIface(mux_sel, 0, drp_rdy, drp_do)

\* a controller that advances on the low level of RXPMARESETDONE
RxPmaFallLevel == ~FFSynchronizerOut(rx_pma_ff)

\* rxpmaresetdone_r & ~rxpmaresetdone
RxPmaFall == rx_pma_r /\ ~FFSynchronizerOut(rx_pma_ff)

\* the observer before the first edge
RxObsReset == [read |-> -1, locked |-> FALSE]

\* the observer after an edge that takes the FSM from `state` to `next`
\* with `back` on the rdy/do lines of self.drp and `lock` the latched PLL
\* lock of the tick the edge ends
RxObsNext(obs, state, next, back, lock) ==
    [read   |-> IF next = "POWER-DOWN" THEN -1
                ELSE IF state = "DRP_READ_WAIT" /\ back.rdy THEN back.do
                ELSE obs.read,
     locked |-> IF "POWER-DOWN" \in {state, next} THEN FALSE
                ELSE obs.locked \/ lock]

RxIdle ==
    /\ rx_settle_t = 1
    /\ rx_wd_t = 2
    /\ rx_state = "POWER-DOWN"
    /\ rx_init_count = 1
    /\ rx_wd_count = 2
    /\ rx_drpvalue = 0
    /\ rx_pma_ff = FFSynchronizerReset
    /\ rx_pma_r = FALSE
    /\ rx_rstdone_ff = FFSynchronizerReset
    /\ rx_out = RxOutReset
    /\ rx_restart = FALSE
    /\ rx_rxpmaresetdone = FALSE
    /\ rx_rxresetdone = FALSE
    /\ rx_orig = 0
    /\ rx_hit = FALSE
    /\ rx_obs = RxObsReset
    /\ rx_plllock = FALSE
    /\ rx_plllock_ff = FFSynchronizerReset

\* the controller, the mux and the DRP port after construction
RxInit(R, P, D) ==
    /\ rx_settle_t \in 1..MaxSettleT
    /\ rx_wd_t = MaxRxWatchdogT
    /\ rx_state = "POWER-DOWN"
    /\ rx_init_count = rx_settle_t
    /\ rx_wd_count = rx_wd_t
    /\ rx_drpvalue = 0
    /\ rx_pma_ff = FFSynchronizerReset
    /\ rx_pma_r = FALSE
    /\ rx_rstdone_ff = FFSynchronizerReset
    /\ rx_out = RxOutReset
    /\ rx_restart \in R
    /\ rx_rxpmaresetdone \in P
    /\ rx_rxresetdone \in D
    /\ drp_reg \in DrpData
    /\ rx_orig = drp_reg
    /\ rx_hit = FALSE
    /\ rx_obs = RxObsReset
    /\ rx_plllock = FALSE
    /\ rx_plllock_ff = FFSynchronizerReset
    /\ DrpIdle
    /\ mux_sel = 0
    /\ mux_req = [j \in Ifaces |->
                    IF j = 0 THEN RxDrpLines("POWER-DOWN", 0)
                    ELSE DrpLinesZero]

\* one edge of the ss clock in GTPRXInit, which is the DRP clock as well
\* (drp.clk.eq(ClockSignal("ss"))); the port answers after a number of edges
\* taken from `delays`, the inputs of the next tick are drawn from R
\* (restart), L (plllock) and D (rxresetdone)
RxEdge(R, L, D, delays) ==
    /\ rx_state' =
          IF RxResetActs THEN "POWER-DOWN"
          ELSE RxFsmNext(rx_state, WaitTimerDone(rx_init_count),
                         RxDrpBack.rdy, RxPmaFall,
                         FFSynchronizerOut(rx_rstdone_ff), rx_restart)
    /\ rx_drpvalue' =
          IF RxResetActs THEN 0
          ELSE RxDrpValueNext(rx_state, rx_drpvalue,
                              RxDrpBack.rdy, RxDrpBack.do)
    /\ rx_init_count' =
          IF RxResetActs THEN rx_settle_t
          ELSE WaitTimerNext(rx_settle_t, rx_init_count, TRUE)
    /\ rx_wd_count' =
          IF RxResetActs THEN rx_wd_t
          ELSE WaitTimerNext(rx_wd_t, rx_wd_count, RxWatchdogWait)
    /\ rx_out' = IF RxResetActs THEN RxOutReset ELSE RxOutNext(rx_state)
    /\ rx_pma_r' =
          IF RxResetActs THEN FALSE ELSE FFSynchronizerOut(rx_pma_ff)
    /\ rx_rstdone_ff' = FFSynchronizerNext(rx_rstdone_ff, rx_rxresetdone)
    /\ DrpPortEdge(MuxToBus(mux_sel, mux_req), mux_sel, delays)
    /\ mux_req' = [mux_req EXCEPT ![0] = RxDrpLines(rx_state', rx_drpvalue')]
    /\ rx_hit' = (rx_hit \/ (RxResetSelf /\ drp_busy
                                /\ rx_state \in RxWaitStates))
    /\ rx_plllock_ff' = FFSynchronizerNext(rx_plllock_ff, rx_plllock)
    /\ rx_plllock' \in L
    /\ rx_obs' = RxObsNext(rx_obs, rx_state, rx_state', RxDrpBack,
                            FFSynchronizerOut(rx_plllock_ff))
    /\ rx_restart' \in R
    /\ rx_rxresetdone' \in D
    /\ UNCHANGED <<rx_settle_t, rx_wd_t, rx_orig, mux_sel>>

\* an ss edge with restart, rxresetdone and the port's delay free; the
\* PLL reports no lock, which no state of the FSM reads
RxTick ==
    /\ RxEdge(BOOLEAN, {FALSE}, BOOLEAN, 1..MaxDrpDelay)
    /\ UNCHANGED <<rx_pma_ff, rx_rxpmaresetdone, notRx>>

\* an ss edge with plllock free, RXRESETDONE asserted and the port answering
\* at the next edge
RxTickLock ==
    /\ RxEdge(BOOLEAN, BOOLEAN, {TRUE}, {1})
    /\ UNCHANGED <<rx_pma_ff, rx_rxpmaresetdone, notRx>>

\* an edge of the sync clock: FFSynchronizer(self.rxpmaresetdone,
\* rxpmaresetdone) is left in its default output domain, "sync"
RxSyncTick ==
    /\ rx_pma_ff' = FFSynchronizerNext(rx_pma_ff, rx_rxpmaresetdone)
    /\ UNCHANGED <<rx_settle_t, rx_wd_t, rx_state, rx_init_count, rx_wd_count,
                   rx_drpvalue, rx_pma_r, rx_rstdone_ff, rx_out, rx_restart,
                   rx_rxpmaresetdone, rx_rxresetdone, rx_orig, rx_hit,
                   rx_obs, rx_plllock, rx_plllock_ff>>
    /\ UNCHANGED <<muxVars, drpVars, notRx>>

\* the transceiver changes RXPMARESETDONE
RxPmaChange ==
    /\ rx_rxpmaresetdone' = ~rx_rxpmaresetdone
    /\ UNCHANGED <<rx_settle_t, rx_wd_t, rx_state, rx_init_count, rx_wd_count,
                   rx_drpvalue, rx_pma_ff, rx_pma_r, rx_rstdone_ff, rx_out,
                   rx_restart, rx_rxresetdone, rx_orig, rx_hit, rx_obs,
                   rx_plllock, rx_plllock_ff>>
    /\ UNCHANGED <<muxVars, drpVars, notRx>>

-----------------------------------------------------------------------------
(* GTP: the transmit and receive datapaths.  Signals are unsigned integers *)
(* of their declared width, one-bit signals are 0 or 1                     *)

\* self.data_width = 20
data_width == 20

\* self.nwords = self.data_width // 10
nwords == data_width \div 10

Lanes == 0..(nwords - 1)

\* Value.word_select(i, w): bits i*w .. i*w + w - 1
WordSelect(v, i, w) == (v \div Pow2(i * w)) % Pow2(w)

\* Value[i]
BitSelect(v, i) == (v \div Pow2(i)) % 2

\* Repl(b, n): the one-bit value b on each of n bits
Repl(b, n) == IF b = 1 THEN Pow2(n) - 1 ELSE 0

\* the value of an n-word signal whose word i (w bits wide) is f[i]
RECURSIVE PackWords(_, _, _)
PackWords(f, n, w) ==
    IF n = 0 THEN 0
    ELSE PackWords(f, n - 1, w) + f[n - 1] * Pow2((n - 1) * w)

\* SUB of usb3.physical.coding, the decode-error substitution symbol of
\* USB 3 (K28.4): the module is imported by artix7.py but is not part of
\* these sources
SubValue == 156
SubCtrl  == 1

\* the assignments under `with m.If(tx_gpio_en)`, with sink.ready
TxRaw(gpio) ==
    [ready             |-> 1,
     tx_enable_8b10b   |-> 0,
     tx_data           |-> Repl(gpio, 8 * nwords),
     tx_ctrl           |-> 0,
     tx_char_disp_mode |-> Repl(gpio, nwords),
     tx_char_disp_val  |-> Repl(gpio, nwords)]

\* the assignments under its `with m.Else()`, with sink.ready
TxNormal(sink) ==
    [ready             |-> 1,
     tx_enable_8b10b   |-> 1,
     tx_data           |-> sink.data,
     tx_ctrl           |-> sink.ctrl,
     tx_char_disp_mode |-> 0,
     tx_char_disp_val  |-> 0]

\* a datapath whose raw mode leaves the control field to the sink
TxDatapathRawKeepsCtrl(gpio_en, gpio, sink) ==
    IF gpio_en = 1 THEN [TxRaw(gpio) EXCEPT !.tx_ctrl = sink.ctrl]
    ELSE TxNormal(sink)

\* a datapath that never turns 8b10b off
TxDatapathAlways8b10b(gpio_en, gpio, sink) ==
    IF gpio_en = 1 THEN [TxRaw(gpio) EXCEPT !.tx_enable_8b10b = 1]
    ELSE TxNormal(sink)

\* a datapath that stalls the sink while in raw mode
TxDatapathStallsInRaw(gpio_en, gpio, sink) ==
    IF gpio_en = 1 THEN [TxRaw(gpio) EXCEPT !.ready = 0]
    ELSE TxNormal(sink)

\* the combinational Tx datapath: what GTP drives for the synchronized
\* tx_gpio_en, tx_gpio and the sink's payload of a tick
TxDatapath(gpio_en, gpio, sink) ==
    IF gpio_en = 1 THEN TxRaw(gpio) ELSE TxNormal(sink)

\* a loop that replaces the whole word when any lane failed to decode
RxLaneWordWide(rx, i) ==
    IF rx.code_error # 0
    THEN [data |-> SubValue, ctrl |-> SubCtrl]
    ELSE [data |-> WordSelect(rx.data, i, 8), ctrl |-> BitSelect(rx.ctrl, i)]

\* a datapath that replaces a byte received with a disparity error as well
RxLaneSubOnDisparity(rx, i) ==
    IF BitSelect(rx.code_error, i) = 1 \/ BitSelect(rx.disp_error, i) = 1
    THEN [data |-> SubValue, ctrl |-> SubCtrl]
    ELSE [data |-> WordSelect(rx.data, i, 8), ctrl |-> BitSelect(rx.ctrl, i)]

\* one iteration of the Rx datapath's loop: lane i of source.data/ctrl
RxLane(rx, i) ==
    IF BitSelect(rx.code_error, i) = 1
    THEN [data |-> SubValue, ctrl |-> SubCtrl]
    ELSE [data |-> WordSelect(rx.data, i, 8), ctrl |-> BitSelect(rx.ctrl, i)]

\* the combinational Rx datapath: self.source for the receiver's outputs
RxDatapath(rx) ==
    [valid |-> 1,
     data  |-> PackWords([i \in Lanes |-> RxLane(rx, i).data], nwords, 8),
     ctrl  |-> PackWords([i \in Lanes |-> RxLane(rx, i).ctrl], nwords, 1)]

\* payloads offered on the sink: 0x4ABC and 0xFF00, any ctrl
SinkWords == [data : {19132, 65280}, ctrl : 0..(Pow2(nwords) - 1)]

\* outputs of the receiver: RXDATA, RXCHARISK, RXDISPERR, RXNOTINTABLE
RxWords == [data       : {19132, 65280},
            ctrl       : 0..(Pow2(nwords) - 1),
            disp_error : {0, Pow2(nwords) - 1},
            code_error : 0..(Pow2(nwords) - 1)]

\* the signals of the current tick
GtpTxGpioEn == FFSynchronizerOut(gtp_gpio_en_ff)
GtpTxGpio   == FFSynchronizerOut(gtp_gpio_ff)
GtpTx       == TxDatapath(GtpTxGpioEn, GtpTxGpio, gtp_sink)
GtpSource   == RxDatapath(gtp_rx)

DataIdle ==
    /\ gtp_tx_gpio_en = 0 /\ gtp_tx_gpio = 0
    /\ gtp_gpio_en_ff = <<0, 0>> /\ gtp_gpio_ff = <<0, 0>>
    /\ gtp_gpio_hist = <<>>
    /\ gtp_sink = [data |-> 0, ctrl |-> 0]
    /\ gtp_rx = [data |-> 0, ctrl |-> 0, disp_error |-> 0, code_error |-> 0]

\* one edge of the tx clock
DataTxTick ==
    /\ gtp_gpio_en_ff' = FFSynchronizerNext(gtp_gpio_en_ff, gtp_tx_gpio_en)
    /\ gtp_gpio_ff' = FFSynchronizerNext(gtp_gpio_ff, gtp_tx_gpio)
    /\ gtp_gpio_hist' = SubSeq(<<<<gtp_tx_gpio_en, gtp_tx_gpio>>>>
                                \o gtp_gpio_hist, 1,
                                Min(Len(gtp_gpio_hist) + 1, 2))
    /\ gtp_tx_gpio_en' \in 0..1
    /\ gtp_tx_gpio' \in 0..1
    /\ gtp_sink' \in SinkWords
    /\ UNCHANGED <<gtp_rx, notData>>

\* one edge of the rx clock
DataRxTick ==
    /\ gtp_rx' \in RxWords
    /\ UNCHANGED <<gtp_tx_gpio_en, gtp_tx_gpio, gtp_gpio_en_ff, gtp_gpio_ff,
                   gtp_gpio_hist, gtp_sink, notData>>

-----------------------------------------------------------------------------
(* GTPQuadPLL.  Frequencies and line rates are whole numbers of kHz and    *)
(* kbit/s; the quotients the code forms in floating point are kept as      *)
(* exact fractions [num, den] with den > 0, which is what the floating     *)
(* point arithmetic yields for whole numbers of Hz of this size            *)

Rat(n, d)    == [num |-> n, den |-> d]
RatLeq(a, b) == a.num * b.den <= b.num * a.den
RatEq(a, b)  == a.num * b.den = b.num * a.den

\* the limits of `1.6e9 <= vco_freq <= 3.3e9`, in kHz
VcoMin == 1600000
VcoMax == 3300000

\* a loop over n1 that starts at 5
N1ValuesDescending == <<5, 4>>

\* the values the four loops run over, in the order they run
N1Values == <<4, 5>>
N2Values == <<1, 2, 3, 4, 5>>
MValues  == <<1, 2>>
DValues  == <<1, 2, 4, 8, 16>>

\* vco_freq = refclk_freq*(n1*n2)/m
VcoFreq(refclk_freq, n1, n2, m) == Rat(refclk_freq * (n1 * n2), m)

\* a range check without the upper limit
VcoInRangeNoUpper(vco_freq) == RatLeq(Rat(VcoMin, 1), vco_freq)

\* 1.6e9 <= vco_freq <= 3.3e9
VcoInRange(vco_freq) ==
    RatLeq(Rat(VcoMin, 1), vco_freq) /\ RatLeq(vco_freq, Rat(VcoMax, 1))

\* current_linerate = vco_freq*2/d
CurrentLinerate(vco_freq, d) == Rat(vco_freq.num * 2, vco_freq.den * d)

\* float formatting "{:.2f}" of num/den: the nearest multiple of 1/100,
\* a tie going to the even one; the result counts hundredths
Format2f(num, den) ==
    LET q == (num * 100) \div den
        r == (num * 100) % den
    IN  IF 2 * r > den \/ (2 * r = den /\ q % 2 = 1) THEN q + 1 ELSE q

\* an error whose message holds the arguments unscaled
ConfigErrorUnscaled(refclk_freq, linerate) ==
    [kind |-> "ValueError", mhz |-> refclk_freq, gbps |-> linerate]

\* raise ValueError(msg.format(refclk_freq/1e6, linerate/1e9))
ConfigError(refclk_freq, linerate) ==
    [kind |-> "ValueError",
     mhz  |-> Format2f(refclk_freq, 1000),
     gbps |-> Format2f(linerate, 1000000)]

\* the loop over d, from its j-th value on: the dictionary returned, or
\* <<>> when the loop ends without returning
RECURSIVE ScanD(_, _, _, _, _, _)
ScanD(refclk_freq, linerate, n1, n2, m, j) ==
    LET vco_freq == VcoFreq(refclk_freq, n1, n2, m)
    IN  IF j > Len(DValues) THEN <<>>
        ELSE IF RatEq(CurrentLinerate(vco_freq, DValues[j]), Rat(linerate, 1))
             THEN [kind |-> "config", n1 |-> n1, n2 |-> n2, m |-> m,
                   d |-> DValues[j], vco_freq |-> vco_freq,
                   clkin |-> refclk_freq, linerate |-> linerate]
             ELSE ScanD(refclk_freq, linerate, n1, n2, m, j + 1)

\* loops nested the other way: m outermost, n2 running fastest
OuterPointMOutermost(k) ==
    [n1 |-> N1Values[((k \div Len(N2Values)) % Len(N1Values)) + 1],
     n2 |-> N2Values[(k % Len(N2Values)) + 1],
     m  |-> MValues[(k \div (Len(N1Values) * Len(N2Values))) + 1]]

\* iteration k (from 0) of the loops over n1, n2 and m, m running fastest
OuterPoint(k) ==
    [n1 |-> N1Values[(k \div (Len(N2Values) * Len(MValues))) + 1],
     n2 |-> N2Values[((k \div Len(MValues)) % Len(N2Values)) + 1],
     m  |-> MValues[(k % Len(MValues)) + 1]]

OuterCount == Len(N1Values) * Len(N2Values) * Len(MValues)

\* the loops over n1, n2 and m from iteration k on, then the raise
RECURSIVE ScanGrid(_, _, _)
ScanGrid(refclk_freq, linerate, k) ==
    IF k = OuterCount THEN ConfigError(refclk_freq, linerate)
    ELSE LET g == OuterPoint(k)
             r == IF VcoInRange(VcoFreq(refclk_freq, g.n1, g.n2, g.m))
                  THEN ScanD(refclk_freq, linerate, g.n1, g.n2, g.m, 1)
                  ELSE <<>>
         IN  IF r # <<>> THEN r ELSE ScanGrid(refclk_freq, linerate, k + 1)

compute_config(refclk_freq, linerate) == ScanGrid(refclk_freq, linerate, 0)

\* reference clocks (25 .. 250 MHz) and line rates (0.5 .. 6.25 Gbit/s)
\* a GTPQuadPLL is constructed with
RefclkFreqs == {25000, 50000, 100000, 125000, 150000, 156250, 200000, 250000}
Linerates   == {500000, 1000000, 1250000, 2500000, 3125000, 5000000,
                6000000, 6250000}

PllIdle ==
    /\ pll_refclk_freq = 100000 /\ pll_linerate = 5000000
    /\ pll_pc = "new" /\ pll_config = <<>> /\ pll_error = <<>>

\* GTPQuadPLL(refclk, refclk_freq, linerate) is about to run
PllInit ==
    /\ pll_refclk_freq \in RefclkFreqs
    /\ pll_linerate \in Linerates
    /\ pll_pc = "new" /\ pll_config = <<>> /\ pll_error = <<>>

\* a constructor that swallows the exception and leaves config unset
PllConstructSwallowsError ==
    /\ pll_pc = "new"
    /\ LET r == compute_config(pll_refclk_freq, pll_linerate)
       IN  /\ pll_pc' = "constructed"
           /\ pll_config' = IF r.kind = "config" THEN r ELSE pll_config
           /\ pll_error' = pll_error
    /\ UNCHANGED <<pll_refclk_freq, pll_linerate, notPll>>

\* GTPQuadPLL.__init__: self.config is assigned if compute_config returns
PllConstruct ==
    /\ pll_pc = "new"
    /\ LET r == compute_config(pll_refclk_freq, pll_linerate)
       IN  IF r.kind = "config"
           THEN pll_pc' = "constructed" /\ pll_config' = r
                /\ pll_error' = pll_error
           ELSE pll_pc' = "raised" /\ pll_error' = r
                /\ pll_config' = pll_config
    /\ UNCHANGED <<pll_refclk_freq, pll_linerate, notPll>>

-----------------------------------------------------------------------------
(* BucatiniPHY (src/bucatini/phy.py): the constructor of a subclass *)

\* _DATA_BUS_WIDTHS = {32: 0b00, 16: 0b01, 8: 0b10}
DATA_BUS_WIDTHS == (32 :> 0) @@ (16 :> 1) @@ (8 :> 2)

\* the widths a subclass sets INTERFACE_WIDTH to
InterfaceWidths == 0..MaxInterfaceWidth

\* the attributes __init__ sets on self, from self.rate to self.rx_termination
PhyAttributes == 27

\* raise ValueError(f"Bucatini does not support a data bus width of ...")
PhyValueError(width) == [kind |-> "ValueError", width |-> width]

PhyIdle ==
    /\ phy_interface_width = 32 /\ phy_pc = "new" /\ phy_attributes = 0
    /\ phy_data_bus_width = -1 /\ phy_error = <<>>

\* the subclass is defined, its constructor is about to run
PhyInit ==
    /\ phy_interface_width \in InterfaceWidths
    /\ phy_pc = "new" /\ phy_attributes = 0
    /\ phy_data_bus_width = -1 /\ phy_error = <<>>

\* a constructor that validates the width after it has built the interface
PhyConstructChecksLate ==
    /\ phy_pc = "new"
    /\ phy_attributes' = PhyAttributes
    /\ IF phy_interface_width \notin DOMAIN DATA_BUS_WIDTHS
       THEN /\ phy_pc' = "raised"
            /\ phy_error' = PhyValueError(phy_interface_width)
            /\ phy_data_bus_width' = phy_data_bus_width
       ELSE /\ phy_pc' = "constructed"
            /\ phy_data_bus_width' = DATA_BUS_WIDTHS[phy_interface_width]
            /\ phy_error' = phy_error
    /\ UNCHANGED <<phy_interface_width, notPhy>>

\* BucatiniPHY.__init__: the width is validated first, then the interface
\* is built, data_bus_width being Const(_DATA_BUS_WIDTHS[INTERFACE_WIDTH])
PhyConstruct ==
    /\ phy_pc = "new"
    /\ IF phy_interface_width \notin DOMAIN DATA_BUS_WIDTHS
       THEN /\ phy_pc' = "raised"
            /\ phy_error' = PhyValueError(phy_interface_width)
            /\ UNCHANGED <<phy_attributes, phy_data_bus_width>>
       ELSE /\ phy_pc' = "constructed"
            /\ phy_attributes' = PhyAttributes
            /\ phy_data_bus_width' = DATA_BUS_WIDTHS[phy_interface_width]
            /\ phy_error' = phy_error
    /\ UNCHANGED <<phy_interface_width, notPhy>>

\* nothing but the datapath and the PLL is instantiated
OtherIdle == dut = "none" /\ DataIdle /\ PllIdle /\ BuildIdle /\ PhyIdle

-----------------------------------------------------------------------------
(* GTP: both controllers on one ss clock, with an idealized transceiver:   *)
(* the PLL locks d_pll ticks after its reset is released, TXRESETDONE and  *)
(* RXRESETDONE rise d_rst ticks after the front-end reset is released,     *)
(* RXPMARESETDONE falls d_pma ticks after GTRXRESET is released and every  *)
(* register transaction is answered after d_drp ticks                      *)

Max(a, b) == IF a > b THEN a ELSE b

IdealDelays == 1..MaxIdealDelay

\* a countdown that is reloaded while its reset is asserted
IdealCount(cnt, reset, d) == IF reset THEN d ELSE Max(cnt - 1, 0)

\* the ticks within which GTPTXInit is in READY
TxReadyBound(settle, d_pll, d_rst) ==
    Max(5 + d_pll, WaitTimerTicks(settle)) + 5 + d_rst

\* the ticks within which GTPRXInit is in READY
RxReadyBound(settle, d_rst, d_pma, d_drp) ==
    LET post == Max(1, WaitTimerTicks(settle)) + 1
        fall == post + 2 * (d_drp + 2)
        gtp  == fall + 4 + d_pma + d_drp + 2
    IN  Max(gtp, fall + 3 + d_rst) + 1

\* the ticks within which both controllers are in READY
IdealBound ==
    Max(TxReadyBound(tx_settle_t, ideal.d_pll, ideal.d_rst),
        RxReadyBound(rx_settle_t, ideal.d_rst, ideal.d_pma, ideal.d_drp))

\* the tick counter stops here
IdealTickCap ==
    Max(TxReadyBound(MaxSettleT, MaxIdealDelay, MaxIdealDelay),
        RxReadyBound(MaxSettleT, MaxIdealDelay, MaxIdealDelay,
                     MaxIdealDelay)) + 8

IdealIdle ==
    ideal = [d_pll |-> 1, d_rst |-> 1, d_pma |-> 1, d_drp |-> 1,
             pll |-> 1, txrst |-> 1, rxrst |-> 1, pma |-> 1, ticks |-> 0]

\* tx_init.plllock.eq(qpll.lock), qpll.reset.eq(tx_init.pllreset)
IdealLock(i) == i.pll = 0
IdealTxResetDone(i) == i.txrst = 0
IdealRxResetDone(i) == i.rxrst = 0
IdealPmaResetDone(i) == i.pma > 0

\* tx_init and rx_init are built with the same ss_clock_frequency
InitIdeal ==
    /\ OtherIdle
    /\ TimerIdle
    /\ \E d_pll \in IdealDelays, d_rst \in IdealDelays,
          d_pma \in IdealDelays, d_drp \in IdealDelays :
          ideal = [d_pll |-> d_pll, d_rst |-> d_rst, d_pma |-> d_pma,
                   d_drp |-> d_drp, pll |-> d_pll, txrst |-> d_rst,
                   rxrst |-> d_rst, pma |-> d_pma, ticks |-> 0]
    /\ TxInit({FALSE}, {IdealLock(ideal)}, {IdealTxResetDone(ideal)})
    /\ RxInit({FALSE}, {IdealPmaResetDone(ideal)}, {IdealRxResetDone(ideal)})
    /\ rx_settle_t = tx_settle_t

\* one edge of the ss clock in GTP; R holds the values ~self.tx_enable and
\* ~self.rx_enable can take in the next tick
GtpEdge(R) ==
    /\ ideal' = [ideal EXCEPT
          !.pll   = IdealCount(@, TxComb(tx_state).pllreset, ideal.d_pll),
          !.txrst = IdealCount(@, tx_out.gttxreset, ideal.d_rst),
          !.rxrst = IdealCount(@, rx_out.gtrxreset, ideal.d_rst),
          !.pma   = IdealCount(@, rx_out.gtrxreset, ideal.d_pma),
          !.ticks = Min(@ + 1, IdealTickCap)]
    /\ TxEdge(R, {IdealLock(ideal')}, {IdealTxResetDone(ideal')})
    /\ RxEdge(R, {IdealLock(ideal')}, {IdealRxResetDone(ideal')},
              {ideal.d_drp})
    /\ rx_pma_ff' = FFSynchronizerNext(rx_pma_ff, rx_rxpmaresetdone)
    /\ rx_rxpmaresetdone' = IdealPmaResetDone(ideal')
    /\ UNCHANGED <<timerVars, otherVars>>

\* one edge of the ss clock in GTP, restart never asserted
IdealTick == GtpEdge({FALSE})

\* LunaArtix7SerDes: serdes.tx_enable.eq(self.enable) and
\* serdes.rx_enable.eq(self.enable), so both controllers see one restart
SerDesTick == GtpEdge(BOOLEAN) /\ tx_restart' = rx_restart'

\* GTP: self.tx_ready.eq(tx_init.done), self.rx_ready.eq(rx_init.done)
GtpTxReady == TxDone
GtpRxReady == RxDone

\* a top level that reports the transmitter alone
SerDesReadyTxOnly == GtpTxReady

\* LunaArtix7SerDes: self.ready.eq(serdes.tx_ready & serdes.rx_ready)
SerDesReady == GtpTxReady /\ GtpRxReady

-----------------------------------------------------------------------------
(* Specifications *)

InitTimer ==
    /\ OtherIdle
    /\ MuxIdle /\ DrpIdle /\ drp_reg = 0
    /\ TxIdle /\ RxIdle /\ IdealIdle
    /\ wt_t \in 1..MaxT
    /\ wt_count = wt_t
    /\ wt_wait \in BOOLEAN
    /\ wt_run = 0
    /\ wt_prev = <<>>

\* one clock edge of the timer's domain
TimerTick ==
    /\ wt_count' = WaitTimerNext(wt_t, wt_count, wt_wait)
    /\ wt_run' = IF wt_wait THEN Min(wt_run + 1, MaxT + 1) ELSE 0
    /\ wt_prev' = <<wt_wait, wt_count>>
    /\ wt_wait' \in BOOLEAN
    /\ UNCHANGED <<wt_t, notTimer>>

NextTimer == TimerTick

SpecTimer == InitTimer /\ [][NextTimer]_vars

InitMux ==
    /\ OtherIdle
    /\ TimerIdle
    /\ TxIdle /\ RxIdle /\ IdealIdle
    /\ MuxIdle
    /\ DrpIdle
    /\ drp_reg \in DrpData

NextMux == MuxSelect \/ MuxDrive \/ MuxTick

SpecMux == InitMux /\ [][NextMux]_vars

InitBuild ==
    /\ TimerIdle /\ DrpIdle /\ drp_reg = 0
    /\ TxIdle /\ RxIdle /\ IdealIdle
    /\ dut = "none" /\ DataIdle /\ PllIdle /\ PhyIdle
    /\ MuxIdle
    /\ BuildIdle

NextBuild == DrpMuxAddInterface \/ DrpMuxElaborate \/ DrpMuxSelect

SpecBuild == InitBuild /\ [][NextBuild]_vars

InitTx ==
    /\ OtherIdle
    /\ TimerIdle /\ MuxIdle /\ DrpIdle /\ drp_reg = 0 /\ RxIdle /\ IdealIdle
    /\ TxInit(BOOLEAN, BOOLEAN, BOOLEAN)

NextTx == TxTick

SpecTx == InitTx /\ [][NextTx]_vars

InitRx ==
    /\ OtherIdle
    /\ TimerIdle /\ TxIdle /\ IdealIdle
    /\ RxInit(BOOLEAN, BOOLEAN, BOOLEAN)

NextRx == RxTick \/ RxSyncTick \/ RxPmaChange

SpecRx == InitRx /\ [][NextRx]_vars

\* GTPRXInit with the PLL lock free and the shortest settle time
InitRxLock ==
    /\ OtherIdle
    /\ TimerIdle /\ TxIdle /\ IdealIdle
    /\ RxInit(BOOLEAN, BOOLEAN, {TRUE})
    /\ rx_settle_t = 1

NextRxLock == RxTickLock \/ RxSyncTick \/ RxPmaChange

SpecRxLock == InitRxLock /\ [][NextRxLock]_vars

NextIdeal == IdealTick

SpecIdeal == InitIdeal /\ [][NextIdeal]_vars

\* self.enable = Signal(reset=1): the first tick has restart deasserted.
\* The transceiver's delays are explored in pairs and the Tx watchdog at
\* its largest threshold.
InitSerDes ==
    /\ InitIdeal
    /\ ideal.d_pll = ideal.d_rst
    /\ ideal.d_pma = ideal.d_drp
    /\ tx_wd_t = MaxTxWatchdogT

NextSerDes == SerDesTick

SpecSerDes == InitSerDes /\ [][NextSerDes]_vars

InitTxNoLock ==
    /\ OtherIdle
    /\ TimerIdle /\ MuxIdle /\ DrpIdle /\ drp_reg = 0 /\ RxIdle /\ IdealIdle
    /\ TxInit({FALSE}, {FALSE}, BOOLEAN)

NextTxNoLock == TxTickNoLock

\* the ss clock never stops
FairSpecTxNoLock ==
    InitTxNoLock /\ [][NextTxNoLock]_vars /\ WF_vars(TxTickNoLock)

\* the stages of a FFSynchronizer start at its reset value, 0
InitData ==
    /\ TimerIdle /\ MuxIdle /\ DrpIdle /\ drp_reg = 0
    /\ TxIdle /\ RxIdle /\ IdealIdle
    /\ dut = "none" /\ PllIdle /\ BuildIdle /\ PhyIdle
    /\ gtp_tx_gpio_en \in 0..1 /\ gtp_tx_gpio \in 0..1
    /\ gtp_gpio_en_ff = <<0, 0>> /\ gtp_gpio_ff = <<0, 0>>
    /\ gtp_gpio_hist = <<>>
    /\ gtp_sink \in SinkWords
    /\ gtp_rx \in RxWords

NextData == DataTxTick \/ DataRxTick

SpecData == InitData /\ [][NextData]_vars

InitPll ==
    /\ TimerIdle /\ MuxIdle /\ DrpIdle /\ drp_reg = 0
    /\ TxIdle /\ RxIdle /\ IdealIdle
    /\ dut = "none" /\ DataIdle /\ BuildIdle /\ PhyIdle
    /\ PllInit

NextPll == PllConstruct

SpecPll == InitPll /\ [][NextPll]_vars

InitPhy ==
    /\ TimerIdle /\ MuxIdle /\ DrpIdle /\ drp_reg = 0
    /\ TxIdle /\ RxIdle /\ IdealIdle
    /\ dut = "none" /\ DataIdle /\ PllIdle /\ BuildIdle
    /\ PhyInit

NextPhy == PhyConstruct

SpecPhy == InitPhy /\ [][NextPhy]_vars

\* either controller alone, its inputs free
InitBringup ==
    /\ TimerIdle /\ IdealIdle /\ DataIdle /\ PllIdle /\ BuildIdle /\ PhyIdle
    /\ \/ /\ dut = "tx"
          /\ MuxIdle /\ DrpIdle /\ drp_reg = 0 /\ RxIdle
          /\ TxInit(BOOLEAN, BOOLEAN, BOOLEAN)
       \/ /\ dut = "rx"
          /\ TxIdle
          /\ RxInit(BOOLEAN, BOOLEAN, BOOLEAN)

NextBringup ==
    \/ dut = "tx" /\ TxTick
    \/ dut = "rx" /\ RxTick
    \/ dut = "rx" /\ RxSyncTick
    \/ dut = "rx" /\ RxPmaChange

SpecBringup == InitBringup /\ [][NextBringup]_vars

-----------------------------------------------------------------------------
(* WaitTimer: claims *)

\* C4: a WaitTimer of threshold T >= 1, wait asserted on every tick from the
\* reset state, reports done false during the first T ticks and true exactly
\* T ticks after wait was first asserted.
C4_DoneExactlyAfterT ==
    /\ (wt_run < wt_t => ~WaitTimerDone(wt_count))
    /\ (wt_run = wt_t => WaitTimerDone(wt_count))

\* C5: whatever the counter holds, a tick with wait deasserted leaves the
\* counter at T and done false in the next tick.
C5_ReloadOnDeassert ==
    (wt_prev # <<>> /\ ~wt_prev[1]) =>
        (wt_count = wt_t /\ ~WaitTimerDone(wt_count))

\* wait was deasserted in a tick in which the timer had expired
C5_Witness ==
    /\ wt_prev # <<>>
    /\ ~wt_prev[1]
    /\ wt_prev[2] = 0
    /\ wt_t > 1

\* C29: once done is true while wait stays asserted, the counter stays at
\* zero and done stays true until a tick in which wait is deasserted, and
\* the counter never leaves the range 0..T.
C29_FrozenAtZeroWithinRange ==
    /\ wt_count \in 0..wt_t
    /\ (wt_prev # <<>> /\ wt_prev[1] /\ WaitTimerDone(wt_prev[2]))
          => WaitTimerDone(wt_count)

-----------------------------------------------------------------------------
(* DRPMux: claims *)

\* what interface j sees of the physical bus in the current tick
IfaceBack(j) == MuxToIface(mux_sel, j, drp_rdy, drp_do)

\* C8 as stated: for every value of the 4-bit selector exactly one registered
\* interface has the physical bus's ready and data-out forwarded to it.
C8_ExactlyOneForEverySel ==
    drp_rdy => Cardinality({j \in Ifaces : IfaceBack(j).rdy}) = 1

\* C8 as amended: a selector value that names a registered interface forwards
\* ready and data-out to that interface alone and every other interface sees
\* ready = 0 and data-out = 0; a selector value beyond the registered
\* interfaces forwards them to no interface at all.
C8_SelectedAloneForwarded ==
    /\ \A j \in Ifaces :
          IfaceBack(j) = IF j = mux_sel
                         THEN [rdy |-> drp_rdy, do |-> drp_do]
                         ELSE DrpBackZero
    /\ (drp_rdy /\ mux_sel \in Ifaces) =>
          Cardinality({j \in Ifaces : IfaceBack(j).rdy}) = 1
    /\ (drp_rdy /\ mux_sel \notin Ifaces) =>
          Cardinality({j \in Ifaces : IfaceBack(j).rdy}) = 0

\* the port answers a read with a non-zero word while interface 1 is selected
C8_Witness ==
    /\ drp_rdy
    /\ drp_do # 0
    /\ mux_sel = 1
    /\ IfaceBack(1).do = drp_do
    /\ IfaceBack(0) = DrpBackZero

\* C9: an interface sees a ready pulse only for a transaction it issued
\* itself, also when the selector moved while the transaction was outstanding.
C9_ReadyOnlyToIssuer ==
    \A j \in Ifaces : IfaceBack(j).rdy => drp_owner = j

\* C10: with the selector on a registered interface i, the physical bus
\* carries i's en/we/addr/di, i sees the bus's rdy/do, and the lines of every
\* other interface have no effect on the physical bus.
C10_SelectedTransparent ==
    mux_sel \in Ifaces =>
        /\ MuxToBus(mux_sel, mux_req) = mux_req[mux_sel]
        /\ IfaceBack(mux_sel) = [rdy |-> drp_rdy, do |-> drp_do]
        /\ \A j \in Ifaces \ {mux_sel} : \A l \in DrpLines :
              MuxToBus(mux_sel, [mux_req EXCEPT ![j] = l])
                  = MuxToBus(mux_sel, mux_req)

\* interface 1 is selected and idle while interface 0 drives a write
C10_Witness ==
    /\ mux_sel = 1
    /\ mux_req[0].en /\ mux_req[0].we
    /\ ~mux_req[1].en
    /\ mux_req[0].di # mux_req[1].di
    /\ drp_rdy

\* C23: elaborating a DRPMux on which add_interface was called more than
\* 16 times fails, and with 16 or fewer calls it elaborates; an elaborated
\* mux has a Case for each of its interfaces.
C23_AtMostSixteen ==
    /\ drpmux_pc = "AssertionError" => drpmux_interfaces > 16
    /\ drpmux_pc = "elaborated" =>
          /\ drpmux_interfaces <= 16
          /\ \A j \in 0..(drpmux_interfaces - 1) :
                \E s \in SelValues : DrpMuxCase(drpmux_interfaces, s) = j

\* sixteen interfaces, the last of them selected
C23_Witness ==
    /\ drpmux_pc = "elaborated"
    /\ drpmux_interfaces = 16
    /\ DrpMuxCase(drpmux_interfaces, mux_sel) = 15

-----------------------------------------------------------------------------
(* GTPTXInit: claims *)

\* C1: restart asserted in a tick in which the FSM is in any state other than
\* POWER-DOWN puts the FSM in POWER-DOWN, with done false, one tick later
\* (stated here for GTPTXInit; GTPRXInit is built the same way).
C1_RestartForcesPowerDown ==
    [][(tx_restart /\ tx_state # "POWER-DOWN")
          => (tx_state' = "POWER-DOWN" /\ ~TxDone')]_vars

\* C3: with the latched PLL lock never asserted and restart never asserted,
\* the Tx controller never asserts done and is in POWER-DOWN again and again.
C3_NoLockRestartsForever ==
    [](~TxDone) /\ []<>(tx_state = "POWER-DOWN")

\* the order in which a bring-up attempt of the transmitter visits the
\* states
TxOrder == <<"POWER-DOWN", "DRP", "WAIT-PLL-RESET", "WAIT-INIT-DELAY",
             "WAIT-GTP-RESET", "READY">>

\* C24: every change of the transmitter's FSM state is to the immediate
\* successor in TxOrder or to POWER-DOWN, and POWER-DOWN is left for DRP
\* after one tick when neither restart nor the watchdog asks for a reset.
C24_TxSuccessorOrPowerDown ==
    [][/\ tx_state' # tx_state =>
             \/ tx_state' = "POWER-DOWN"
             \/ \E k \in 1..(Len(TxOrder) - 1) :
                   tx_state = TxOrder[k] /\ tx_state' = TxOrder[k + 1]
       /\ (tx_state = "POWER-DOWN" /\ ~TxResetSelf) => tx_state' = "DRP"]_vars

\* READY has been held for a tick, after a PLL lock that came when the
\* settle timer was already done
C24_Witness ==
    /\ tx_state = "READY" /\ tx_out.txdlyen
    /\ WaitTimerDone(tx_init_count)

\* C27: when the watchdog has expired in a tick, whatever the FSM state,
\* the FSM is in POWER-DOWN in the next tick, with done and the registered
\* gttxreset, gttxpd, txuserrdy and txdlyen all deasserted.
C27_ExpiryForcesPowerDown ==
    [][WaitTimerDone(tx_wd_count) =>
          /\ tx_state' = "POWER-DOWN"
          /\ ~TxDone'
          /\ tx_out' = TxOutReset]_vars

C30_ResetHeldForSettleTime ==
    /\ (tx_obs.since_drp >= 0 /\ ~tx_out.gttxreset)
          => tx_obs.since_drp >= tx_settle_t
    /\ tx_state = "WAIT-GTP-RESET" => WaitTimerDone(tx_init_count)

\* C31: done is asserted only if the latched PLL lock was asserted in some
\* tick since the FSM last was in POWER-DOWN, and the FSM leaves
\* WAIT-PLL-RESET only at the end of a tick in which the latched PLL lock is
\* asserted.
C31_DoneOnlyAfterLock ==
    [][/\ TxDone' => tx_obs'.locked
       /\ (tx_state = "WAIT-PLL-RESET" /\ tx_state' # "WAIT-PLL-RESET")
             => FFSynchronizerOut(tx_plllock_ff)]_vars

\* done is asserted in a second attempt, after a lock of that attempt, while
\* the PLL reports no lock any more
C31_Witness ==
    /\ TxDone
    /\ tx_obs.locked
    /\ tx_obs.since_drp >= 0
    /\ ~FFSynchronizerOut(tx_plllock_ff)
    /\ ~tx_plllock

-----------------------------------------------------------------------------
(* GTPRXInit: claims *)

\* C6: whenever the Rx controller is in READY, the device register at 0x011
\* holds the value it held before the first bring-up attempt, whatever
\* restart requests and watchdog expiries came before.
C6_ReadyRegisterRestored ==
    rx_state = "READY" => drp_reg = rx_orig

\* READY is reached although restart or the watchdog fired while a register
\* transaction was pending, with a register whose bit 11 was set
C6_Witness ==
    /\ rx_state = "READY"
    /\ rx_hit
    /\ BitAnd(rx_orig, DrpMask) # rx_orig
    /\ drp_reg = rx_orig

\* C7: the Rx controller never asserts the bus enable strobe while a
\* transaction it issued earlier is still unanswered, also when restart or
\* the watchdog fire in a REG-*-WAIT state.
C7_NoEnableWhilePending ==
    mux_req[0].en => ~(drp_busy /\ drp_owner = 0)

\* the restore write is issued after restart or the watchdog fired in a
\* wait state of the same run
C7_Witness ==
    /\ rx_state = "DRP_RESTORE_ISSUE"
    /\ mux_req[0].en
    /\ rx_hit
    /\ MuxToBus(mux_sel, mux_req).en

\* the order in which a bring-up attempt of the receiver visits the states
RxOrder == <<"POWER-DOWN", "DRP_READ_ISSUE", "DRP_READ_ISSUE_POST",
             "DRP_READ_WAIT", "DRP_MOD_ISSUE", "DRP_MOD_WAIT",
             "WAIT_PMARST_FALL", "DRP_RESTORE_ISSUE", "DRP_RESTORE_WAIT",
             "WAIT-GTP-RESET", "READY">>

\* C25: every change of the receiver's FSM state is to the immediate
\* successor in RxOrder or to POWER-DOWN.
C25_RxSuccessorOrPowerDown ==
    [][rx_state' # rx_state =>
          \/ rx_state' = "POWER-DOWN"
          \/ \E k \in 1..(Len(RxOrder) - 1) :
                rx_state = RxOrder[k] /\ rx_state' = RxOrder[k + 1]]_vars

\* the modify write is answered in a tick in which the falling edge of
\* RXPMARESETDONE is seen
C25_Witness ==
    /\ rx_state = "DRP_MOD_WAIT" /\ RxDrpBack.rdy /\ RxPmaFall

\* bit b of the unsigned value v
BitOf(v, b) == (v \div Pow2(b)) % 2

\* C32: the transaction the controller issues in DRP_MOD_ISSUE is a write to
\* address 0x011 whose data is the value the preceding read returned with
\* bit 11 cleared and each of the 15 other bits unchanged.
C32_ModifyWriteClearsBit11 ==
    rx_state = "DRP_MOD_ISSUE" =>
        LET bus == MuxToBus(mux_sel, mux_req) IN
        /\ bus.en /\ bus.we
        /\ bus.addr = 17
        /\ rx_obs.read \in 0..65535
        /\ bus.di \in 0..65535
        /\ \A b \in 0..15 :
              BitOf(bus.di, b) = IF b = 11 THEN 0 ELSE BitOf(rx_obs.read, b)

\* the read returned a value with bit 11 and a lower bit set
C32_Witness ==
    /\ rx_state = "DRP_MOD_ISSUE"
    /\ rx_obs.read = 2049
    /\ MuxToBus(mux_sel, mux_req).di = 1

\* C33: within one bring-up attempt the data written in DRP_RESTORE_ISSUE
\* is, bit for bit, the DO the bus returned together with ready in
\* DRP_READ_WAIT of that attempt.
C33_RestoreWritesWhatWasRead ==
    rx_state = "DRP_RESTORE_ISSUE" =>
        LET bus == MuxToBus(mux_sel, mux_req) IN
        /\ bus.en /\ bus.we
        /\ rx_obs.read \in 0..65535
        /\ bus.di = rx_obs.read

\* the restore is issued while the device register holds the modified value
C33_Witness ==
    /\ rx_state = "DRP_RESTORE_ISSUE"
    /\ rx_obs.read = 2049
    /\ drp_reg = 1
    /\ MuxToBus(mux_sel, mux_req).di = 2049

\* C39: done is asserted by the receiver's controller only if the latched
\* PLL lock was asserted in some tick since the FSM last was in POWER-DOWN.
C39_RxDoneOnlyAfterLock ==
    RxDone => rx_obs.locked

-----------------------------------------------------------------------------
(* GTP with the idealized transceiver: claims *)

\* C2: restart never asserted and the transceiver idealized, both bring-up
\* controllers are in READY once a number of ticks has passed that is a
\* function of the device's delays and of the settle time.
C2_BothReadyWithinBound ==
    ideal.ticks >= IdealBound =>
        (tx_state = "READY" /\ rx_state = "READY")

\* both controllers are in READY behind the slowest idealized device
C2_Witness ==
    /\ tx_state = "READY" /\ rx_state = "READY"
    /\ ideal.ticks >= IdealBound
    /\ ideal.d_pll = MaxIdealDelay /\ ideal.d_drp = MaxIdealDelay
    /\ ideal.d_pma = MaxIdealDelay /\ ideal.d_rst = MaxIdealDelay

\* the bound is met: one tick earlier a controller is still on its way
C2_BoundIsTight ==
    ideal.ticks < IdealBound =>
        ~(tx_state = "READY" /\ rx_state = "READY")

-----------------------------------------------------------------------------
(* The watchdogs of GTPTXInit and GTPRXInit: claims *)

\* a step of the receiver that is an edge of the ss clock: it leaves the
\* sync-domain synchronizer and the RXPMARESETDONE input alone
RxSsEdge == dut = "rx" /\ UNCHANGED <<rx_pma_ff, rx_rxpmaresetdone>>

\* C26: in both controllers and at every edge of the ss clock, the watchdog
\* counts when done is false, restart is not asserted and the watchdog has
\* not expired, and reloads its threshold otherwise; a restart request
\* disarms the watchdog in the same tick.
C26_WatchdogArmedExactlyWhen ==
    [][/\ dut = "tx" =>
             tx_wd_count' =
                IF ~TxDone /\ ~tx_restart /\ ~WaitTimerDone(tx_wd_count)
                THEN (tx_wd_count + 1) % Pow2(WaitTimerWidth(tx_wd_t))
                ELSE tx_wd_t
       /\ RxSsEdge =>
             rx_wd_count' =
                IF ~RxDone /\ ~rx_restart /\ ~WaitTimerDone(rx_wd_count)
                THEN (rx_wd_count + 1) % Pow2(WaitTimerWidth(rx_wd_t))
                ELSE rx_wd_t]_vars

\* a restart request arrives while the transmitter's watchdog is counting
C26_Witness ==
    /\ dut = "tx" /\ tx_restart /\ ~TxDone
    /\ tx_wd_count # tx_wd_t /\ ~WaitTimerDone(tx_wd_count)

-----------------------------------------------------------------------------
(* GTPRXInit at the edges of the ss clock: claims *)

\* the state that follows each wait state
RxAfterWait(s) ==
    CASE s = "DRP_READ_WAIT"    -> "DRP_MOD_ISSUE"
      [] s = "DRP_MOD_WAIT"     -> "WAIT_PMARST_FALL"
      [] s = "DRP_RESTORE_WAIT" -> "WAIT-GTP-RESET"

\* C34: at an edge of the ss clock that ends a tick in DRP_READ_WAIT,
\* DRP_MOD_WAIT or DRP_RESTORE_WAIT without restart or watchdog expiry, the
\* FSM stays if the bus ready is not asserted and goes to the next state if
\* it is; the enable strobe is asserted in the ticks of DRP_READ_ISSUE_POST,
\* DRP_MOD_ISSUE and DRP_RESTORE_ISSUE only, each of which lasts one tick
\* and is the only way into its wait state.
C34_WaitUntilReadyOneEnable ==
    [][RxSsEdge =>
          /\ (rx_state \in {"DRP_READ_WAIT", "DRP_MOD_WAIT", "DRP_RESTORE_WAIT"}
                 /\ ~rx_restart /\ ~WaitTimerDone(rx_wd_count))
                => rx_state' = IF RxDrpBack.rdy THEN RxAfterWait(rx_state)
                               ELSE rx_state
          /\ mux_req[0].en <=> rx_state \in {"DRP_READ_ISSUE_POST",
                                             "DRP_MOD_ISSUE",
                                             "DRP_RESTORE_ISSUE"}
          /\ mux_req[0].en => ~mux_req'[0].en
          /\ (rx_state' \in {"DRP_READ_WAIT", "DRP_MOD_WAIT", "DRP_RESTORE_WAIT"}
                 /\ rx_state' # rx_state) => mux_req[0].en]_vars

\* the modify write is answered while the controller waits in DRP_MOD_WAIT
C34_Witness ==
    /\ dut = "rx"
    /\ rx_state = "DRP_MOD_WAIT"
    /\ RxDrpBack.rdy
    /\ ~rx_restart /\ ~WaitTimerDone(rx_wd_count)
    /\ ~mux_req[0].en
    /\ rx_out.gtrxreset

\* C35: at an edge of the ss clock that ends a tick in WAIT_PMARST_FALL the
\* FSM goes to DRP_RESTORE_ISSUE if in that tick the latched RXPMARESETDONE
\* is 0 and its delayed copy is 1, and stays otherwise; the delayed copy is
\* the latched value of the tick before, so a low level without an edge and
\* an edge seen before the state was entered do not advance it.
C35_AdvanceOnFallingEdgeOnly ==
    [][RxSsEdge =>
          /\ rx_pma_r' = rx_pma_ff[2]
          /\ rx_state = "WAIT_PMARST_FALL" =>
                rx_state' = IF rx_pma_r /\ ~rx_pma_ff[2]
                            THEN "DRP_RESTORE_ISSUE"
                            ELSE "WAIT_PMARST_FALL"]_vars

\* the first tick in WAIT_PMARST_FALL, the latched signal low already
C35_Witness ==
    /\ dut = "rx"
    /\ rx_state = "WAIT_PMARST_FALL"
    /\ rx_out.gtrxreset
    /\ ~rx_pma_r /\ ~rx_pma_ff[2]

-----------------------------------------------------------------------------
(* GTP datapath: claims *)

\* C11: in every tick and for each of the two lanes on its own, a lane whose
\* decode-error flag is set carries SUB's value and SUB's ctrl on the
\* source, and a lane whose flag is clear carries the receiver's byte and
\* ctrl bit of that lane.
C11_LaneSubstitution ==
    \A i \in Lanes :
        IF BitSelect(gtp_rx.code_error, i) = 1
        THEN /\ WordSelect(GtpSource.data, i, 8) = SubValue
             /\ BitSelect(GtpSource.ctrl, i) = SubCtrl
        ELSE /\ WordSelect(GtpSource.data, i, 8) = WordSelect(gtp_rx.data, i, 8)
             /\ BitSelect(GtpSource.ctrl, i) = BitSelect(gtp_rx.ctrl, i)

\* lane 0 failed to decode and is replaced, lane 1 passes 0x4A through
C11_Witness ==
    /\ gtp_rx.code_error = 1 /\ gtp_rx.data = 19132 /\ gtp_rx.ctrl = 2
    /\ GtpSource.data = 19132 - 188 + SubValue
    /\ GtpSource.ctrl = 3

\* lane i of the receiver's outputs a and b carry the same decoded byte,
\* control bit and code-error bit
SameLaneInputs(a, b, i) ==
    /\ WordSelect(a.data, i, 8) = WordSelect(b.data, i, 8)
    /\ BitSelect(a.ctrl, i) = BitSelect(b.ctrl, i)
    /\ BitSelect(a.code_error, i) = BitSelect(b.code_error, i)

\* C36: byte i and control bit i of the source in a tick are a function of
\* the decoded byte i, control bit i and code-error bit i of that tick:
\* any receiver output that agrees with the current one on these three
\* gives the same byte i and control bit i, whatever its other lane and its
\* disparity-error flags are.
C36_LaneDependsOnOwnInputsOnly ==
    LET source == GtpSource IN
    \A other \in RxWords :
        LET source2 == RxDatapath(other) IN
        \A i \in Lanes :
            SameLaneInputs(other, gtp_rx, i) =>
                /\ WordSelect(source2.data, i, 8) = WordSelect(source.data, i, 8)
                /\ BitSelect(source2.ctrl, i) = BitSelect(source.ctrl, i)

\* lane 1 decodes 0x4A with a disparity error while lane 0 fails to decode
C36_Witness ==
    /\ gtp_rx.data = 19132 /\ gtp_rx.ctrl = 0
    /\ gtp_rx.code_error = 1
    /\ gtp_rx.disp_error = 3
    /\ WordSelect(GtpSource.data, 1, 8) = 74
    /\ WordSelect(GtpSource.data, 0, 8) = SubValue

\* C12 as stated: while the synchronized tx_gpio_en is asserted, 8b10b is
\* disabled and every bit of the payload, control, disparity-mode and
\* disparity-value fields equals the synchronized tx_gpio bit.
C12_RawDrivesEveryField ==
    GtpTxGpioEn = 1 =>
        /\ GtpTx.tx_enable_8b10b = 0
        /\ GtpTx.tx_data = Repl(GtpTxGpio, 8 * nwords)
        /\ GtpTx.tx_ctrl = Repl(GtpTxGpio, nwords)
        /\ GtpTx.tx_char_disp_mode = Repl(GtpTxGpio, nwords)
        /\ GtpTx.tx_char_disp_val = Repl(GtpTxGpio, nwords)

\* C12, amended: while the synchronized tx_gpio_en is asserted, 8b10b is
\* disabled, every bit of the payload, disparity-mode and disparity-value
\* fields equals the synchronized tx_gpio bit, and the control field is
\* zero whatever tx_gpio and the sink carry.
C12_RawDrivesPayloadAndDisparity ==
    GtpTxGpioEn = 1 =>
        /\ GtpTx.tx_enable_8b10b = 0
        /\ \A b \in 0..(8 * nwords - 1) :
              BitSelect(GtpTx.tx_data, b) = GtpTxGpio
        /\ \A b \in Lanes :
              /\ BitSelect(GtpTx.tx_char_disp_mode, b) = GtpTxGpio
              /\ BitSelect(GtpTx.tx_char_disp_val, b) = GtpTxGpio
        /\ GtpTx.tx_ctrl = 0

\* raw mode drives a one while the sink offers control symbols
C12_Witness ==
    /\ GtpTxGpioEn = 1 /\ GtpTxGpio = 1
    /\ gtp_sink.ctrl = 3
    /\ GtpTx.tx_data = 65535 /\ GtpTx.tx_ctrl = 0

\* C13: while the synchronized tx_gpio_en is deasserted, 8b10b is enabled,
\* payload and control equal the sink's data and ctrl and both disparity
\* fields are zero; 8b10b is enabled in exactly the ticks that are not in
\* raw mode.
C13_NormalModePassesSink ==
    /\ GtpTx.tx_enable_8b10b = 1 <=> GtpTxGpioEn = 0
    /\ GtpTxGpioEn = 0 =>
          /\ GtpTx.tx_enable_8b10b = 1
          /\ GtpTx.tx_data = gtp_sink.data
          /\ GtpTx.tx_ctrl = gtp_sink.ctrl
          /\ GtpTx.tx_char_disp_mode = 0
          /\ GtpTx.tx_char_disp_val = 0

\* normal mode while the unused tx_gpio input is high
C13_Witness ==
    /\ GtpTxGpioEn = 0 /\ GtpTxGpio = 1
    /\ gtp_sink = [data |-> 19132, ctrl |-> 1]
    /\ GtpTx.tx_data = 19132 /\ GtpTx.tx_ctrl = 1
    /\ GtpTx.tx_enable_8b10b = 1

\* C14: sink.ready and source.valid are asserted in every tick, raw mode
\* and ticks with decode errors included.
C14_AlwaysReadyAlwaysValid ==
    GtpTx.ready = 1 /\ GtpSource.valid = 1

\* raw mode with both lanes failing to decode
C14_Witness ==
    /\ GtpTxGpioEn = 1
    /\ gtp_rx.code_error = 3
    /\ GtpTx.ready = 1 /\ GtpSource.valid = 1

\* C22: the output of a two-stage synchronizer in a tick of its destination
\* domain is what its input was two ticks earlier, for every input
\* sequence; checked on the two tx-domain synchronizers of GTP.
C22_LagsByTwoTicks ==
    Len(gtp_gpio_hist) = 2 =>
        <<GtpTxGpioEn, GtpTxGpio>> = gtp_gpio_hist[2]

\* an input that toggles in every tick: the output shows the value of two
\* ticks ago, which is also the current one, not that of the last tick
C22_Witness ==
    /\ Len(gtp_gpio_hist) = 2
    /\ gtp_gpio_hist[1][2] # gtp_gpio_hist[2][2]
    /\ gtp_tx_gpio # gtp_gpio_hist[1][2]
    /\ GtpTxGpio = gtp_gpio_hist[2][2]
    /\ GtpTxGpio # gtp_gpio_hist[1][2]

-----------------------------------------------------------------------------
(* LunaArtix7SerDes: claims *)

\* C15: in every tick the top-level ready equals (Tx controller done AND Rx
\* controller done), so it is asserted exactly when both controllers are in
\* READY and never while either is outside READY.
C15_ReadyIffBothDone ==
    /\ SerDesReady <=> (TxDone /\ RxDone)
    /\ SerDesReady <=> (tx_state = "READY" /\ rx_state = "READY")

\* the transmitter is done, the receiver is not: ready stays low
C15_Witness ==
    /\ tx_state = "READY" /\ rx_state # "READY"
    /\ ~SerDesReady

\* C37: the top-level enable is ~restart of both controllers.  In every
\* tick in which enable is deasserted and was deasserted in the tick before,
\* both controllers are in POWER-DOWN and ready is deasserted.
C37_DisabledHeldInPowerDown ==
    [][(tx_restart /\ rx_restart /\ tx_restart' /\ rx_restart')
          => /\ tx_state' = "POWER-DOWN"
             /\ rx_state' = "POWER-DOWN"
             /\ ~SerDesReady']_vars

-----------------------------------------------------------------------------
(* GTPTXInit and GTPRXInit, either one alone: claims *)

\* C16: a controller (Tx or Rx) that is in READY in a tick in which restart
\* is not asserted is in READY, with done asserted, in the next tick too,
\* whatever its PLL-lock, reset-done and register-bus inputs and its
\* watchdog do.
C16_ReadyUntilRestart ==
    [][/\ (tx_state = "READY" /\ ~tx_restart)
           => (tx_state' = "READY" /\ TxDone')
       /\ (rx_state = "READY" /\ ~rx_restart)
           => (rx_state' = "READY" /\ RxDone')]_vars

\* the transmitter holds READY although the PLL has lost lock and the
\* transceiver has withdrawn TXRESETDONE
C16_Witness ==
    /\ dut = "tx" /\ tx_state = "READY" /\ TxDone /\ ~tx_restart
    /\ tx_plllock_ff = <<FALSE, FALSE>>
    /\ tx_rstdone_ff = <<FALSE, FALSE>>

\* C38: on the registered ports of each controller the front-end reset and
\* user-ready are never asserted in the same tick: gttxreset with txuserrdy,
\* gtrxreset with rxuserrdy.
C38_ResetAndUserReadyExclusive ==
    /\ ~(tx_out.gttxreset /\ tx_out.txuserrdy)
    /\ ~(rx_out.gtrxreset /\ rx_out.rxuserrdy)

\* the tick after a restart from READY: the FSM is in POWER-DOWN and drives
\* the reset while the registered user-ready is still that of READY
C38_Witness ==
    /\ dut = "tx"
    /\ tx_state = "POWER-DOWN"
    /\ TxComb(tx_state).gttxreset
    /\ tx_out.txuserrdy
    /\ ~tx_out.gttxreset

-----------------------------------------------------------------------------
(* GTPQuadPLL.compute_config: claims *)

\* the grid points that meet both constraints for a clock and a line rate:
\* VCO frequency refclk*n1*n2/m within 1.6 .. 3.3 GHz and 2*VCO/d equal to
\* the line rate
FeasiblePoints(refclk_freq, linerate) ==
    {g \in [n1 : {4, 5}, n2 : 1..5, m : {1, 2}, d : {1, 2, 4, 8, 16}] :
        /\ VcoMin * g.m <= refclk_freq * g.n1 * g.n2
        /\ refclk_freq * g.n1 * g.n2 <= VcoMax * g.m
        /\ 2 * refclk_freq * g.n1 * g.n2 = linerate * g.d * g.m}

PllFeasible == FeasiblePoints(pll_refclk_freq, pll_linerate)

ConfigPoint(c) == [n1 |-> c.n1, n2 |-> c.n2, m |-> c.m, d |-> c.d]

\* (n1, n2, m, d) of a is not after that of b in lexicographic order
LexLeq(a, b) ==
    \/ a.n1 < b.n1
    \/ a.n1 = b.n1 /\ a.n2 < b.n2
    \/ a.n1 = b.n1 /\ a.n2 = b.n2 /\ a.m < b.m
    \/ a.n1 = b.n1 /\ a.n2 = b.n2 /\ a.m = b.m /\ a.d <= b.d

\* C17: whenever some grid point is feasible for the requested clock and
\* line rate, the constructor gets a configuration: a feasible point,
\* with the VCO frequency of that point and the requested clock and rate.
C17_ConfigWheneverFeasible ==
    (pll_pc # "new" /\ PllFeasible # {}) =>
        /\ pll_pc = "constructed"
        /\ ConfigPoint(pll_config) \in PllFeasible
        /\ pll_config.vco_freq.num * pll_config.m =
              pll_refclk_freq * pll_config.n1 * pll_config.n2
              * pll_config.vco_freq.den
        /\ pll_config.clkin = pll_refclk_freq
        /\ pll_config.linerate = pll_linerate

\* 250 MHz and 5 Gbit/s: n1 = 4, n2 = 5 fits with m = 2 only, m = 1 would
\* put the VCO at 5 GHz
C17_Witness ==
    /\ pll_pc = "constructed"
    /\ pll_refclk_freq = 250000 /\ pll_linerate = 5000000
    /\ ConfigPoint(pll_config) = [n1 |-> 4, n2 |-> 5, m |-> 2, d |-> 1]

\* C18: when no grid point is feasible the constructor fails with an error
\* that names the clock (MHz) and the line rate (Gbit/s) to within half a
\* hundredth, no configuration is stored, and no GTPQuadPLL is ever
\* constructed with an unset configuration.
C18_ErrorWhenInfeasible ==
    /\ pll_pc = "constructed" => pll_config # <<>>
    /\ (pll_pc # "new" /\ PllFeasible = {}) =>
          /\ pll_pc = "raised"
          /\ pll_config = <<>>
          /\ pll_error # <<>>
          /\ 10 * pll_error.mhz - pll_refclk_freq \in -5..5
          /\ 10000 * pll_error.gbps - pll_linerate \in -5000..5000

\* 25 MHz cannot make 3.125 Gbit/s; the message says 25.00 and 3.12
C18_Witness ==
    /\ pll_pc = "raised"
    /\ pll_refclk_freq = 25000 /\ pll_linerate = 3125000
    /\ pll_config = <<>>
    /\ pll_error.mhz = 2500 /\ pll_error.gbps = 312

\* C19: a returned configuration is the lexicographically smallest
\* feasible (n1, n2, m, d).
C19_LexSmallestFeasible ==
    pll_pc = "constructed" =>
        \A g \in PllFeasible : LexLeq(ConfigPoint(pll_config), g)

\* a configuration was returned where several points are feasible
C19_Witness ==
    /\ pll_pc = "constructed"
    /\ Cardinality(PllFeasible) >= 3
    /\ \E g \in PllFeasible : g.m < pll_config.m

\* C20 as stated: a 100 MHz clock with a 1 Gbit/s line rate has no feasible
\* grid point and the constructor fails.
C20_100MHz1GbpsFails ==
    (pll_pc # "new" /\ pll_refclk_freq = 100000 /\ pll_linerate = 1000000)
        => pll_pc = "raised"

\* C20, amended: a 100 MHz clock with a 1 Gbit/s line rate is feasible and
\* yields n1 = 4, n2 = 5, m = 1, d = 4 with the VCO at 2 GHz.
C20_100MHz1GbpsConfig ==
    (pll_pc # "new" /\ pll_refclk_freq = 100000 /\ pll_linerate = 1000000)
        => /\ pll_pc = "constructed"
           /\ ConfigPoint(pll_config) = [n1 |-> 4, n2 |-> 5, m |-> 1, d |-> 4]
           /\ pll_config.vco_freq = Rat(2000000, 1)

C20_Witness ==
    /\ pll_pc = "constructed"
    /\ pll_refclk_freq = 100000 /\ pll_linerate = 1000000
    /\ pll_config.d = 4 /\ pll_error = <<>>

\* C21 as stated: a 25 MHz clock with a 5 Gbit/s line rate yields a
\* configuration with m = 1, the VCO within 1.6 .. 3.3 GHz and d such that
\* 2*VCO/d is 5 Gbit/s exactly.
C21_25MHz5GbpsConfig ==
    (pll_pc # "new" /\ pll_refclk_freq = 25000 /\ pll_linerate = 5000000)
        => /\ pll_pc = "constructed"
           /\ pll_config.m = 1
           /\ VcoInRange(pll_config.vco_freq)
           /\ RatEq(CurrentLinerate(pll_config.vco_freq, pll_config.d),
                    Rat(pll_linerate, 1))

\* C21, amended: a 25 MHz clock with a 5 Gbit/s line rate has no feasible
\* grid point (the VCO reaches 625 MHz at most); the constructor fails with
\* the error naming 25.00 MHz and 5.00 Gbit/s and stores no configuration.
C21_25MHz5GbpsFails ==
    (pll_pc # "new" /\ pll_refclk_freq = 25000 /\ pll_linerate = 5000000)
        => /\ pll_pc = "raised"
           /\ pll_config = <<>>
           /\ pll_error = [kind |-> "ValueError", mhz |-> 2500, gbps |-> 500]

C21_Witness ==
    /\ pll_pc = "raised"
    /\ pll_refclk_freq = 25000 /\ pll_linerate = 5000000
    /\ PllFeasible = {}
    /\ \A g \in [n1 : {4, 5}, n2 : 1..5, m : {1, 2}] :
          pll_refclk_freq * g.n1 * g.n2 < VcoMin * g.m

-----------------------------------------------------------------------------
(* BucatiniPHY: claims *)

\* C40: a constructor that was given an INTERFACE_WIDTH other than 8, 16
\* and 32 has raised ValueError without having set any interface attribute;
\* one that was given 32, 16 or 8 has built the interface with
\* data_bus_width 0, 1 or 2 respectively.
C40_WidthValidatedFirst ==
    phy_pc # "new" =>
        IF phy_interface_width \in {8, 16, 32}
        THEN /\ phy_pc = "constructed"
             /\ phy_error = <<>>
             /\ phy_attributes > 0
             /\ phy_data_bus_width =
                   CASE phy_interface_width = 32 -> 0
                     [] phy_interface_width = 16 -> 1
                     [] phy_interface_width = 8  -> 2
        ELSE /\ phy_pc = "raised"
             /\ phy_error # <<>>
             /\ phy_error.kind = "ValueError"
             /\ phy_attributes = 0
             /\ phy_data_bus_width = -1

\* the constructor has refused the width 64
C40_Witness ==
    /\ phy_interface_width = 64
    /\ phy_pc = "raised"
    /\ phy_error = [kind |-> "ValueError", width |-> 64]

=============================================================================
